---------------------------- MODULE Spec2Model ----------------------------
(***************************************************************************)
(* A model of the redis_cpp server of dennisss/dacha: the incremental RESP *)
(* parser (pkg/redis_cpp/redis_resp.h), the command dispatch and pub/sub   *)
(* handlers (src/redis_cpp/redis_connection.cpp) and the part of the       *)
(* connection I/O layer (pkg/redis_cpp/poller.h) the handlers act through. *)
(*                                                                         *)
(* Several specifications share the module, among them:                    *)
(*   SpecParser  one RESPParser fed the bytes of an encoded value in       *)
(*               chunks of any size (parse / grab).                        *)
(*   Spec        the server: connections are accepted, receive requests,   *)
(*               get Writable / WriteEOF events and close.                 *)
(*   SpecIO      the output side of one IOHandler: write(), Writable and   *)
(*               WriteEOF events, the socket taking what it takes.         *)
(* A byte is a one-character string ("G", "\r"); Ord gives its code.       *)
(***************************************************************************)
EXTENDS Integers, Sequences, FiniteSets, TLC

VARIABLES
    \* ---- SpecParser
    pin,        \* the bytes the peer sends: the encoding of one value
    ppos,       \* how many bytes of pin parse() has consumed so far
    parser,     \* the RESPParser object
    pgrab,      \* what grab() returned last (NULL before)
    pcalls,     \* history: parse() calls made so far, counted up to 2
    \* ---- Spec
    db,         \* the key-value store behind server->db
    allRooms,   \* RedisServer::allRooms: room name -> list of connections
    conns,      \* the RedisConnection object at each address
    accepted,   \* number of connections accepted so far
    crashed,    \* the process has died (a write through a freed object)
    last,       \* history: the event handled last
    wlog,       \* history: the write() calls of the event handled last
    lastSet,    \* history: per key, the value of the last SET answered +OK
    hlog,       \* history: the handlers entered and the store calls made
                \* by the event handled last
    \* ---- SpecIO
    io,         \* one IOHandler: its fields, its kqueue registration, and
                \* the history of its socket
    \* ---- SpecTimer, SpecMain
    kq,         \* the Poller and the main loop around it
    \* ---- SpecTrie
    lookup      \* one Trie::get call: its key and what it gave

pvars == <<pin, ppos, parser, pgrab, pcalls>>
svars == <<db, allRooms, conns, accepted, crashed, last, wlog, lastSet, hlog>>
ovars == <<io, kq, lookup>>
vars  == <<pin, ppos, parser, pgrab, pcalls,
           db, allRooms, conns, accepted, crashed, last, wlog, lastSet, hlog,
           io, kq, lookup>>

(***************************************************************************)
(* Bytes                                                                   *)
(***************************************************************************)
CR == "\r"
LF == "\n"
NUL == "NUL"    \* the zero byte vector::resize fills with
HI == "xE9"     \* the byte 0xE9, one of those above 0x7F
\* The printable bytes in code order, 32..126 ("dq" is the double quote,
\* "bsl" the backslash, "bq" the backquote).

Printable ==
    <<
       " ", "!", "dq", "#", "$", "%", "&", "'", "(", ")", "*", "+", ",", "-", ".", "/",
       "0", "1", "2", "3", "4", "5", "6", "7", "8", "9", ":", ";", "<", "=", ">", "?",
       "@", "A", "B", "C", "D", "E", "F", "G", "H", "I", "J", "K", "L", "M", "N", "O",
       "P", "Q", "R", "S", "T", "U", "V", "W", "X", "Y", "Z", "[", "bsl", "]", "^", "_",
       "bq", "a", "b", "c", "d", "e", "f", "g", "h", "i", "j", "k", "l", "m", "n", "o",
       "p", "q", "r", "s", "t", "u", "v", "w", "x", "y", "z", "{", "|", "}", "~"
    >>

OrdTable ==
    [c \in {Printable[i] : i \in 1..Len(Printable)} |->
        31 + CHOOSE i \in 1..Len(Printable) : Printable[i] = c]

\* The code of a byte (ASCII).
Ord(c) ==
    IF c = CR THEN 13
    ELSE IF c = LF THEN 10
    ELSE IF c = NUL THEN 0
    ELSE IF c = HI THEN 233
    ELSE OrdTable[c]

\* The value of a byte held in a char, which is signed in the builds the
\* server has (kqueue: x86-64 and arm64 BSD and macOS).
SChar(c) == IF Ord(c) >= 128 THEN Ord(c) - 256 ELSE Ord(c)

\* The printable byte with code n (32..126).
Chr(n) == Printable[n - 31]

Min(a, b) == IF a < b THEN a ELSE b

\* operator<<(int): the decimal digits of n, with a minus sign when negative.
RECURSIVE DecDigits(_)
DecDigits(n) ==
    IF n < 10 THEN <<Chr(48 + n)>>
    ELSE DecDigits(n \div 10) \o <<Chr(48 + (n % 10))>>

DecStr(n) == IF n < 0 THEN <<"-">> \o DecDigits(0 - n) ELSE DecDigits(n)

(***************************************************************************)
(* RESP objects (redis_resp.h).  An object is a record: RESPBuffer has     *)
(* str, RESPInteger has val, RESPArray has items.                          *)
(***************************************************************************)
RESPTypeNil          == "nil"       \* '\x00', a virtual type
RESPTypeInline       == "inline"    \* '\x01', a virtual type
RESPTypeSimpleString == "+"
RESPTypeError        == "-"
RESPTypeInteger      == ":"
RESPTypeBulkString   == "$"
RESPTypeArray        == "*"

NULL == [type |-> "NULL"]

RESPBuffer(t, s) == [type |-> t, str |-> s]
RESPInteger(v)   == [type |-> RESPTypeInteger, val |-> v]
RESPArray(t, xs) == [type |-> t, items |-> xs]

IsBuffer(o) == "str" \in DOMAIN o
IsArrayObj(o) == "items" \in DOMAIN o

RESPStateType       == "Type"
RESPStateLengthSign == "LengthSign"
RESPStateLength     == "Length"
RESPStateLengthEnd  == "LengthEnd"
RESPStateString     == "String"
RESPStateStringEnd  == "StringEnd"
RESPStateData       == "Data"
RESPStateDataEnd1   == "DataEnd1"
RESPStateDataEnd2   == "DataEnd2"
RESPStateDone       == "Done"
RESPStateError      == "Error"

RESPParserStatusIncomplete == "Incomplete"
RESPParserStatusInvalid    == "Invalid"
RESPParserStatusDone       == "Done"

(***************************************************************************)
(* RESPParser.  sign and accum are not set by the constructor; parse()     *)
(* writes both in LengthSign before it reads them, so the value they start *)
(* with is never seen.                                                     *)
(***************************************************************************)
NewParser ==
    [state |-> RESPStateType, latest |-> NULL, stack |-> <<>>,
     sign |-> 0, accum |-> 0]

status(ps) ==
    IF ps.state = RESPStateDone THEN RESPParserStatusDone
    ELSE IF ps.state = RESPStateError THEN RESPParserStatusInvalid
    ELSE RESPParserStatusIncomplete

\* A mutant of grab(): the state is left as it is.
grab_NoReset(ps) ==
    [obj |-> IF ps.latest.type = RESPTypeInline
             THEN RESPArray(RESPTypeArray,
                            <<[ps.latest EXCEPT !.type = RESPTypeBulkString]>>)
             ELSE ps.latest,
     ps  |-> [ps EXCEPT !.latest = NULL]]

\* A mutant of grab(): an inline line is handed over as it is, not promoted.
grab_NoPromote(ps) ==
    [obj |-> ps.latest,
     ps  |-> [ps EXCEPT !.state = RESPStateType, !.latest = NULL]]

\* grab(): the completed object (an inline line promoted to a one-element
\* array of one BulkString) and the parser reset to Type.
grab(ps) ==
    LET obj == IF ps.latest.type = RESPTypeInline
               THEN RESPArray(RESPTypeArray,
                              <<[ps.latest EXCEPT !.type = RESPTypeBulkString]>>)
               ELSE ps.latest
    IN  [obj |-> obj,
         ps  |-> [ps EXCEPT !.state = RESPStateType, !.latest = NULL]]

Top(stack) == stack[Len(stack)]
SetTop(stack, ent) == [stack EXCEPT ![Len(stack)] = ent]
Pop(stack) == SubSeq(stack, 1, Len(stack) - 1)

\* What one pass through the switch of parse() leaves: the parser, the loop
\* index i, the done flag, and whether parse() returned (with value n).
Cont(ps, i)     == [ps |-> ps, i |-> i, done |-> FALSE, ret |-> FALSE, n |-> 0]
DoneAt(ps, i)   == [ps |-> ps, i |-> i, done |-> TRUE, ret |-> FALSE, n |-> 0]
Return(ps, n)   == [ps |-> ps, i |-> n, done |-> FALSE, ret |-> TRUE, n |-> n]
GOTO_ERROR(ps, i) == Return([ps EXCEPT !.state = RESPStateError], i + 1)

\* case RESPStateType
StepType(ps, c, i) ==
    LET push(obj, st) ==
            [ps EXCEPT !.state = st,
                       !.stack = Append(ps.stack, [obj |-> obj, arg |-> 0])]
    IN  IF c \in {RESPTypeError, RESPTypeSimpleString}
          THEN Cont(push(RESPBuffer(c, <<>>), RESPStateString), i)
        ELSE IF c = RESPTypeInteger
          THEN Cont(push(RESPInteger(0), RESPStateLengthSign), i)
        ELSE IF c = RESPTypeArray
          THEN Cont(push(RESPArray(c, <<>>), RESPStateLengthSign), i)
        ELSE IF c = RESPTypeBulkString
          THEN Cont(push(RESPBuffer(c, <<>>), RESPStateLengthSign), i)
        ELSE \* default: an inline line; the byte is read again as String
             Cont(push(RESPBuffer(RESPTypeInline, <<>>), RESPStateString), i - 1)

\* int accum is 32 bits wide.  accum * 10 + k is computed on the two 16-bit
\* halves of accum, so that no value in between leaves the 32 bits.
Half == 65536
HighHalf(accum, k) == ((accum \div Half) * 10) + (((accum % Half) * 10 + k) \div Half)
LowHalf(accum, k)  == ((accum % Half) * 10 + k) % Half

\* accum * 10 + k does not fit an int (signed overflow: not defined)
Overflows(accum, k) ==
    HighHalf(accum, k) < 0 - (Half \div 2) \/ HighHalf(accum, k) >= Half \div 2

\* accum * 10 + k as the two's complement hardware computes it
Wrap32(accum, k) ==
    LET hi == HighHalf(accum, k) % Half
    IN  (IF hi >= Half \div 2 THEN hi - Half ELSE hi) * Half + LowHalf(accum, k)

\* accum = (accum * 10) + (c - '0'), where the sum wraps when it overflows
Accumulate(accum, c) == Wrap32(accum, SChar(c) - 48)

\* case RESPStateLength
StepLength(ps, c, i) ==
    IF c = CR THEN Cont([ps EXCEPT !.state = RESPStateLengthEnd], i)
    ELSE Cont([ps EXCEPT !.accum = Accumulate(ps.accum, c)], i)

\* case RESPStateLengthSign, falling through to Length when c is no '-'
StepLengthSign(ps, c, i) ==
    LET p1 == [ps EXCEPT !.state = RESPStateLength, !.accum = 0, !.sign = 1]
    IN  IF c = "-" THEN Cont([p1 EXCEPT !.sign = -1], i)
        ELSE StepLength(p1, c, i)

\* A mutant of StepLengthEnd: a bulk string of negative length waits for
\* the CR LF of a body, as one of length 0 does.
StepLengthEnd_NilBody(ps, c, i) ==
    IF c # LF THEN GOTO_ERROR(ps, i)
    ELSE
      LET accum == ps.accum * ps.sign
          p1    == [ps EXCEPT !.accum = accum]
          ent   == Top(ps.stack)
          t     == ent.obj.type
          setTop(e, st) == [p1 EXCEPT !.stack = SetTop(ps.stack, e), !.state = st]
      IN  IF t = RESPTypeInteger
            THEN DoneAt(setTop([ent EXCEPT !.obj.val = accum], ps.state), i)
          ELSE IF t = RESPTypeArray
            THEN IF accum < 0
                   THEN DoneAt(setTop([ent EXCEPT !.obj.type = RESPTypeNil], ps.state), i)
                 ELSE IF accum = 0 THEN DoneAt(p1, i)
                 ELSE Cont(setTop([obj |-> [ent.obj EXCEPT
                                              !.items = [k \in 1..accum |-> NULL]],
                                   arg |-> 0], RESPStateType), i)
          ELSE IF t = RESPTypeBulkString
            THEN IF accum < 0
                   THEN Cont(setTop([ent EXCEPT !.obj.type = RESPTypeNil],
                                    RESPStateDataEnd1), i)
                 ELSE IF accum = 0 THEN Cont([p1 EXCEPT !.state = RESPStateDataEnd1], i)
                 ELSE Cont(setTop([obj |-> [ent.obj EXCEPT
                                              !.str = [k \in 1..accum |-> NUL]],
                                   arg |-> 0], RESPStateData), i)
          ELSE GOTO_ERROR(p1, i)

\* case RESPStateLengthEnd
StepLengthEnd(ps, c, i) ==
    IF c # LF THEN GOTO_ERROR(ps, i)
    ELSE
      LET accum == ps.accum * ps.sign
          p1    == [ps EXCEPT !.accum = accum]
          ent   == Top(ps.stack)
          t     == ent.obj.type
          setTop(e, st) == [p1 EXCEPT !.stack = SetTop(ps.stack, e), !.state = st]
      IN  IF t = RESPTypeInteger
            THEN DoneAt(setTop([ent EXCEPT !.obj.val = accum], ps.state), i)
          ELSE IF t = RESPTypeArray
            THEN IF accum < 0
                   THEN DoneAt(setTop([ent EXCEPT !.obj.type = RESPTypeNil], ps.state), i)
                 ELSE IF accum = 0 THEN DoneAt(p1, i)
                 ELSE Cont(setTop([obj |-> [ent.obj EXCEPT
                                              !.items = [k \in 1..accum |-> NULL]],
                                   arg |-> 0], RESPStateType), i)
          ELSE IF t = RESPTypeBulkString
            THEN IF accum < 0
                   THEN DoneAt(setTop([ent EXCEPT !.obj.type = RESPTypeNil], ps.state), i)
                 ELSE IF accum = 0 THEN Cont([p1 EXCEPT !.state = RESPStateDataEnd1], i)
                 ELSE Cont(setTop([obj |-> [ent.obj EXCEPT
                                              !.str = [k \in 1..accum |-> NUL]],
                                   arg |-> 0], RESPStateData), i)
          ELSE GOTO_ERROR(p1, i)

\* case RESPStateString
StepString(ps, c, i) ==
    IF c = CR THEN Cont([ps EXCEPT !.state = RESPStateStringEnd], i)
    ELSE LET ent == Top(ps.stack)
         IN  Cont([ps EXCEPT !.stack =
                       SetTop(ps.stack, [ent EXCEPT !.obj.str = Append(@, c)])], i)

\* A mutant of StepStringEnd: the line ends without the completion loop.
StepStringEnd_NoDone(ps, c, i) ==
    IF c # LF THEN GOTO_ERROR(ps, i)
    ELSE Cont([ps EXCEPT !.state = RESPStateType], i)

\* case RESPStateStringEnd
StepStringEnd(ps, c, i) ==
    IF c # LF THEN GOTO_ERROR(ps, i) ELSE DoneAt(ps, i)

\* A mutant of StepData: the copy starts at offset 0 on every call, as if the
\* progress counter ent.arg were not kept between calls.
StepData_NoResume(ps, buf, i) ==
    LET ent  == Top(ps.stack)
        size == Len(ent.obj.str)
        take == Min(Len(buf) - i, size - ent.arg)
        str  == [k \in 1..size |->
                    IF k <= take THEN buf[i + k] ELSE ent.obj.str[k]]
        arg  == ent.arg + take
        p1   == [ps EXCEPT !.stack = SetTop(ps.stack,
                                [obj |-> [ent.obj EXCEPT !.str = str], arg |-> arg])]
    IN  Cont(IF arg >= size THEN [p1 EXCEPT !.state = RESPStateDataEnd1] ELSE p1,
             i + take - 1)

\* case RESPStateData: copy min(len - i, size - arg) bytes at offset arg
StepData(ps, buf, i) ==
    LET ent  == Top(ps.stack)
        size == Len(ent.obj.str)
        take == Min(Len(buf) - i, size - ent.arg)
        str  == [k \in 1..size |->
                    IF k > ent.arg /\ k <= ent.arg + take
                    THEN buf[i + (k - ent.arg)] ELSE ent.obj.str[k]]
        arg  == ent.arg + take
        p1   == [ps EXCEPT !.stack = SetTop(ps.stack,
                                [obj |-> [ent.obj EXCEPT !.str = str], arg |-> arg])]
    IN  Cont(IF arg >= size THEN [p1 EXCEPT !.state = RESPStateDataEnd1] ELSE p1,
             i + take - 1)

\* A mutant of StepDataEnd1: any byte is taken for the CR.
StepDataEnd1_AnyByte(ps, c, i) ==
    Cont([ps EXCEPT !.state = RESPStateDataEnd2], i)

\* case RESPStateDataEnd1
StepDataEnd1(ps, c, i) ==
    IF c # CR THEN GOTO_ERROR(ps, i)
    ELSE Cont([ps EXCEPT !.state = RESPStateDataEnd2], i)

\* case RESPStateDataEnd2
StepDataEnd2(ps, c, i) ==
    IF c # LF THEN GOTO_ERROR(ps, i) ELSE DoneAt(ps, i)

\* switch(state) of parse(), on byte buf[i] (i counts from 0 as in the code)
Switch(ps, buf, i) ==
    LET c == buf[i + 1]
    IN  CASE ps.state = RESPStateType       -> StepType(ps, c, i)
          [] ps.state = RESPStateLengthSign -> StepLengthSign(ps, c, i)
          [] ps.state = RESPStateLength     -> StepLength(ps, c, i)
          [] ps.state = RESPStateLengthEnd  -> StepLengthEnd(ps, c, i)
          [] ps.state = RESPStateString     -> StepString(ps, c, i)
          [] ps.state = RESPStateStringEnd  -> StepStringEnd(ps, c, i)
          [] ps.state = RESPStateData       -> StepData(ps, buf, i)
          [] ps.state = RESPStateDataEnd1   -> StepDataEnd1(ps, c, i)
          [] ps.state = RESPStateDataEnd2   -> StepDataEnd2(ps, c, i)
          [] OTHER                          -> Return(ps, i)   \* Done, Error

\* while(done): pop the finished object; hand it to the caller (GOTO_DONE,
\* ret) or store it in the parent array's next slot.
RECURSIVE Complete(_)
Complete(ps) ==
    LET ent   == Top(ps.stack)
        stack == Pop(ps.stack)
    IN  IF Len(stack) = 0
          THEN [ps  |-> [ps EXCEPT !.stack = stack, !.latest = ent.obj,
                                   !.state = RESPStateDone],
                ret |-> TRUE]
        ELSE LET pent == Top(stack)
                 arg  == pent.arg + 1
                 np   == [obj |-> [pent.obj EXCEPT !.items[pent.arg + 1] = ent.obj],
                          arg |-> arg]
                 p1   == [ps EXCEPT !.stack = SetTop(stack, np)]
             IN  IF arg >= Len(pent.obj.items)
                   THEN Complete(p1)
                 ELSE [ps |-> [p1 EXCEPT !.state = RESPStateType], ret |-> FALSE]

\* for(i = 0; i < len; i++) of parse(), from index i on
RECURSIVE ParseLoop(_, _, _)
ParseLoop(ps, buf, i) ==
    IF i >= Len(buf) THEN [ps |-> ps, n |-> i]
    ELSE LET r == Switch(ps, buf, i)
         IN  IF r.ret THEN [ps |-> r.ps, n |-> r.n]
             ELSE IF r.done
               THEN LET d == Complete(r.ps)
                    IN  IF d.ret THEN [ps |-> d.ps, n |-> r.i + 1]
                        ELSE ParseLoop(d.ps, buf, r.i + 1)
             ELSE ParseLoop(r.ps, buf, r.i + 1)

\* int parse(const char *buf, int len): the parser after the call and the
\* number of bytes consumed.
parse(ps, buf) == ParseLoop(ps, buf, 0)


(***************************************************************************)
(* The bytes a peer sends: RESP encodings of a bounded set of values.      *)
(***************************************************************************)
CRLF == <<CR, LF>>

RECURSIVE Flatten(_)
Flatten(seqs) ==
    IF Len(seqs) = 0 THEN <<>> ELSE Head(seqs) \o Flatten(Tail(seqs))

\* A line sent without a type byte (an inline command).
InlineLine(s) == RESPBuffer(RESPTypeInline, s)
NilBulk  == RESPBuffer(RESPTypeNil, <<>>)
NilArray == RESPArray(RESPTypeNil, <<>>)

\* The wire form of a value: "+line\r\n", "-line\r\n", ":n\r\n",
\* "$len\r\nbytes\r\n", "*count\r\n" and the elements, "$-1\r\n" and "*-1\r\n"
\* for the two Nils, and the bare line for an inline command.
RECURSIVE Encode(_)
Encode(v) ==
    IF v.type \in {RESPTypeSimpleString, RESPTypeError}
      THEN <<v.type>> \o v.str \o CRLF
    ELSE IF v.type = RESPTypeInline THEN v.str \o CRLF
    ELSE IF v.type = RESPTypeInteger THEN <<":">> \o DecStr(v.val) \o CRLF
    ELSE IF v.type = RESPTypeBulkString
      THEN <<"$">> \o DecStr(Len(v.str)) \o CRLF \o v.str \o CRLF
    ELSE IF v.type = RESPTypeNil
      THEN (IF IsArrayObj(v) THEN <<"*">> ELSE <<"$">>) \o DecStr(-1) \o CRLF
    ELSE <<"*">> \o DecStr(Len(v.items)) \o CRLF
           \o Flatten([k \in 1..Len(v.items) |-> Encode(v.items[k])])

\* Sequences over S of length lo..hi.
SeqsOf(S, lo, hi) == UNION {[1..n -> S] : n \in lo..hi}

MaxArrayLen == 2

BulkBodies == {<<>>, <<"a">>, <<"a", CR, LF, "b">>}
Scalars ==
    {RESPBuffer(RESPTypeSimpleString, <<"O", "K">>),
     RESPBuffer(RESPTypeError, <<"E", " ", "x">>),
     RESPInteger(-3), RESPInteger(12), NilBulk, NilArray}
    \cup {RESPBuffer(RESPTypeBulkString, b) : b \in BulkBodies}
Elements ==
    {RESPBuffer(RESPTypeSimpleString, <<"O", "K">>), RESPInteger(-3),
     NilBulk, NilArray,
     RESPBuffer(RESPTypeBulkString, <<"a">>),
     RESPBuffer(RESPTypeBulkString, <<"a", CR, LF, "b">>)}
FlatArrays ==
    {RESPArray(RESPTypeArray, xs) : xs \in SeqsOf(Elements, 0, MaxArrayLen)}
InnerArrays ==
    {RESPArray(RESPTypeArray, xs) :
        xs \in SeqsOf({RESPBuffer(RESPTypeBulkString, <<"a">>), NilBulk},
                      0, MaxArrayLen)}
NestedArrays ==
    {RESPArray(RESPTypeArray, <<x>>) : x \in InnerArrays}
    \cup {RESPArray(RESPTypeArray,
                    <<x, RESPInteger(12),
                      RESPArray(RESPTypeArray, <<RESPArray(RESPTypeArray, <<>>)>>)>>) :
            x \in InnerArrays}
InlineLines ==
    {InlineLine(<<>>), InlineLine(<<"P", "I", "N", "G">>),
     InlineLine(<<"G", "E", "T", " ", "k">>)}

PValues == Scalars \cup FlatArrays \cup NestedArrays \cup InlineLines
PInputs == {Encode(v) : v \in PValues}

(***************************************************************************)
(* The server's variables while only the parser runs, and the parser's     *)
(* while only the server runs.                                             *)
(***************************************************************************)
ServerIdle ==
    /\ db = <<>> /\ allRooms = <<>> /\ conns = <<>> /\ accepted = 0
    /\ crashed = FALSE /\ last = <<>> /\ wlog = <<>> /\ lastSet = <<>>
    /\ hlog = <<>>

ParserIdle ==
    /\ pin = <<>> /\ ppos = 0 /\ parser = NewParser /\ pgrab = NULL
    /\ pcalls = 0

IOIdle == io = <<>>
PollerIdle == kq = <<>>
TrieIdle == lookup = <<>>

(***************************************************************************)
(* SpecParser: the caller's loop of handle_readable around one parser.     *)
(***************************************************************************)
InitParser ==
    /\ pin \in PInputs
    /\ ppos = 0
    /\ parser = NewParser
    /\ pgrab = NULL
    /\ pcalls = 0
    /\ ServerIdle
    /\ IOIdle
    /\ PollerIdle
    /\ TrieIdle

\* read() hands over the next k bytes and parse() is called on them.
PFeed ==
    /\ ppos < Len(pin)
    /\ status(parser) = RESPParserStatusIncomplete
    /\ \E k \in 1..(Len(pin) - ppos) :
         LET r == parse(parser, SubSeq(pin, ppos + 1, ppos + k))
         IN  /\ parser' = r.ps
             /\ ppos' = ppos + r.n
    /\ pcalls' = Min(pcalls + 1, 2)
    /\ UNCHANGED <<pin, pgrab>>
    /\ UNCHANGED svars
    /\ UNCHANGED ovars

\* The caller sees status() Done and takes the value.
PGrab ==
    /\ status(parser) = RESPParserStatusDone
    /\ pgrab' = grab(parser).obj
    /\ parser' = grab(parser).ps
    /\ UNCHANGED <<pin, ppos, pcalls>>
    /\ UNCHANGED svars
    /\ UNCHANGED ovars

NextParser == PFeed \/ PGrab

SpecParser == InitParser /\ [][NextParser]_vars

(***************************************************************************)
(* C1  Chunking invariance of parse(): however the bytes of an encoded     *)
(* value are split into the chunks of successive parse() calls, once they  *)
(* are all fed the parser is Done, has consumed as many bytes as a single  *)
(* parse() call on the whole encoding consumes, and grab() gives the value *)
(* that grab() gives after that single call.                               *)
(***************************************************************************)
WholeParse == parse(NewParser, pin)

ChunkingInvariance ==
    LET whole == WholeParse
    IN  /\ whole.ps.state = RESPStateDone /\ whole.n = Len(pin)
        /\ (ppos = Len(pin) /\ pgrab = NULL) =>
              /\ status(parser) = RESPParserStatusDone
              /\ grab(parser).obj = grab(whole.ps).obj
        /\ status(parser) = RESPParserStatusDone => ppos = whole.n
        /\ status(parser) # RESPParserStatusInvalid
        /\ pgrab # NULL =>
              /\ pgrab = grab(whole.ps).obj
              /\ ppos = whole.n
              /\ parser.stack = <<>>

\* A nested array holding a bulk string was fed in more than one call, with
\* a chunk boundary somewhere, and grabbed.
ChunkingWitness ==
    /\ pcalls >= 2
    /\ pgrab # NULL
    /\ pgrab.type = RESPTypeArray
    /\ Len(pgrab.items) = 3
    /\ pgrab.items[1].type = RESPTypeArray
    /\ Len(pgrab.items[1].items) = 2
    /\ pgrab.items[1].items[1] = RESPBuffer(RESPTypeBulkString, <<"a">>)

(***************************************************************************)
(* Replies (redis_resp.h, redis.h, redis_connection.cpp)                   *)
(***************************************************************************)
RESPOKConst  == <<"+", "O", "K", CR, LF>>
RESPNilConst == <<"$", "-", "1", CR, LF>>
RESPErrorConst(s) == <<"-">> \o s \o CRLF
RESP_ERROR_NOT_ARRAY ==
    RESPErrorConst(<<"C", "o", "m", "m", "a", "n", "d", " ", "i", "s", " ",
          "n", "o", "t", " ", "a", "n", " ", "a", "r", "r",
          "a", "y">>)
ERR_NOT_BULK ==
    RESPErrorConst(<<"E", "x", "p", "e", "c", "t", "e", "d", " ", "r", "e",
          "q", "u", "e", "s", "t", " ", "t", "o", " ", "b",
          "e", " ", "a", "n", " ", "a", "r", "r", "a", "y",
          " ", "o", "f", " ", "b", "u", "l", "k", " ", "s",
          "t", "r", "i", "n", "g", "s">>)
ERR_SUB_MODE ==
    RESPErrorConst(<<"n", "o", "t", " ", "a", "l", "l", "o", "w", "e", "d",
          " ", "i", "n", " ", "s", "u", "b", "s", "c", "r",
          "i", "p", "t", "i", "o", "n", " ", "m", "o", "d",
          "e">>)
ERR_GET ==
    RESPErrorConst(<<"F", "a", "i", "l", "e", "d", " ", "t", "o", " ", "g",
          "e", "t", " ", "k", "e", "y">>)
ERR_SET ==
    RESPErrorConst(<<"F", "a", "i", "l", "e", "d", " ", "t", "o", " ", "s",
          "e", "t", " ", "k", "e", "y">>)
ErrUnknownCommand(cmd) ==
    <<"-">> \o <<"u", "n", "k", "n", "o", "w", "n", " ", "c", "o", "m",
          "m", "a", "n", "d", " ", "'">>
        \o cmd \o <<"'">> \o CRLF
ErrWrongArgs(cmd) ==
    <<"-">> \o <<"w", "r", "o", "n", "g", " ", "n", "u", "m", "b", "e",
          "r", " ", "o", "f", " ", "a", "r", "g", "u", "m",
          "e", "n", "t", "s", " ", "f", "o", "r", " ", "'">>
        \o cmd \o <<"'", " ", "c", "o", "m", "m", "a", "n", "d">> \o CRLF

subscribe_str   == <<"s", "u", "b", "s", "c", "r", "i", "b", "e">>
unsubscribe_str == <<"u", "n", "s", "u", "b", "s", "c", "r", "i", "b", "e">>
message_str     == <<"m", "e", "s", "s", "a", "g", "e">>

\* toupper(c)
\* A mutant of toupper: the byte is left as it is.
toupper_Same(c) == c

toupper(c) == IF Ord(c) >= 97 /\ Ord(c) <= 122 THEN Chr(Ord(c) - 32) ELSE c
ToUpperStr(s) == [k \in 1..Len(s) |-> toupper(s[k])]

(***************************************************************************)
(* The command table and the trie it is stored in (trie.h).  A trie node   *)
(* is named by the bytes on the path from the root; trie[path] is the      *)
(* node's value, NULL when none is set.                                    *)
(***************************************************************************)
\* A mutant of RedisCommandsList: UNSUBSCRIBE is left without its mark.
RedisCommandsList_UnsubscribeUnmarked ==
    << [name |-> <<"G", "E", "T">>, minArgs |-> 1, maxArgs |-> 1,
        handler |-> "run_command_get", allowInSubMode |-> FALSE],
       [name |-> <<"S", "E", "T">>, minArgs |-> 2, maxArgs |-> 4,
        handler |-> "run_command_set", allowInSubMode |-> FALSE],
       [name |-> <<"C", "O", "M", "M", "A", "N", "D">>,
        minArgs |-> 0, maxArgs |-> 0,
        handler |-> "run_command_command", allowInSubMode |-> FALSE],
       [name |-> <<"S", "U", "B", "S", "C", "R", "I", "B", "E">>,
        minArgs |-> 1, maxArgs |-> 4096,
        handler |-> "run_command_subscribe", allowInSubMode |-> TRUE],
       [name |-> <<"U", "N", "S", "U", "B", "S", "C", "R", "I", "B", "E">>,
        minArgs |-> 0, maxArgs |-> 4096,
        handler |-> "run_command_unsubscribe", allowInSubMode |-> FALSE],
       [name |-> <<"P", "U", "B", "L", "I", "S", "H">>,
        minArgs |-> 2, maxArgs |-> 2,
        handler |-> "run_command_publish", allowInSubMode |-> FALSE] >>

RedisCommandsList ==
    << [name |-> <<"G", "E", "T">>, minArgs |-> 1, maxArgs |-> 1,
        handler |-> "run_command_get", allowInSubMode |-> FALSE],
       [name |-> <<"S", "E", "T">>, minArgs |-> 2, maxArgs |-> 4,
        handler |-> "run_command_set", allowInSubMode |-> FALSE],
       [name |-> <<"C", "O", "M", "M", "A", "N", "D">>,
        minArgs |-> 0, maxArgs |-> 0,
        handler |-> "run_command_command", allowInSubMode |-> FALSE],
       [name |-> <<"S", "U", "B", "S", "C", "R", "I", "B", "E">>,
        minArgs |-> 1, maxArgs |-> 4096,
        handler |-> "run_command_subscribe", allowInSubMode |-> TRUE],
       [name |-> <<"U", "N", "S", "U", "B", "S", "C", "R", "I", "B", "E">>,
        minArgs |-> 0, maxArgs |-> 4096,
        handler |-> "run_command_unsubscribe", allowInSubMode |-> TRUE],
       [name |-> <<"P", "U", "B", "L", "I", "S", "H">>,
        minArgs |-> 2, maxArgs |-> 2,
        handler |-> "run_command_publish", allowInSubMode |-> FALSE] >>

EmptyTrie == (<<>> :> NULL)

\* Trie::add: create the nodes along key and set the value at its end.
TrieAdd(trie, key, val) ==
    LET prefixes == {SubSeq(key, 1, n) : n \in 0..Len(key)}
    IN  [p \in DOMAIN trie \cup prefixes |->
            IF p = key THEN val
            ELSE IF p \in DOMAIN trie THEN trie[p] ELSE NULL]

\* What children[c] is for a negative c: an element outside the 256 the
\* vector holds.
OutOfBounds == [type |-> "OutOfBounds"]

\* Trie::get: walk len edges; NULL when an edge is missing.  The edge of
\* byte c is children[c], c a char.
RECURSIVE TrieWalk(_, _, _)
TrieWalk(trie, key, i) ==
    IF i >= Len(key) THEN trie[key]
    ELSE IF SChar(key[i + 1]) < 0 THEN OutOfBounds
    ELSE IF SubSeq(key, 1, i + 1) \notin DOMAIN trie THEN NULL
    ELSE TrieWalk(trie, key, i + 1)

TrieGet(trie, key) == TrieWalk(trie, key, 0)

\* RedisServer::Init
RECURSIVE AddCommands(_, _)
AddCommands(trie, i) ==
    IF i > Len(RedisCommandsList) THEN trie
    ELSE AddCommands(TrieAdd(trie, RedisCommandsList[i].name, RedisCommandsList[i]),
                     i + 1)

RedisCommandStore == AddCommands(EmptyTrie, 1)

(***************************************************************************)
(* The key-value store behind server->db (rocksdb, outside the sources):   *)
(* a map from keys to values whose calls may fail.  outcome is what the    *)
(* store answers a call with: "ok" or "error".                             *)
(***************************************************************************)
DbGet(store, key, outcome) ==
    IF outcome = "error" THEN [status |-> "error", val |-> <<>>]
    ELSE IF key \notin DOMAIN store THEN [status |-> "notfound", val |-> <<>>]
    ELSE [status |-> "ok", val |-> store[key]]

DbPut(store, key, val, outcome) ==
    IF outcome = "error" THEN [status |-> "error", db |-> store]
    ELSE [status |-> "ok", db |-> (key :> val) @@ store]

(***************************************************************************)
(* Connections.  conns[a] is the RedisConnection object at heap address a: *)
(* alive while it is allocated.  close() deletes the object; its address   *)
(* may be handed out again by a later accept.  The handlers work on the    *)
(* record st = [db, allRooms, conns, crashed, wlog, hlog, ret].            *)
(*                                                                         *)
(* Spec keeps no output buffer: write() is the call and its bytes (wlog),  *)
(* and whether write_buf is empty when WriteEOF arrives is the event's     *)
(* input.                                                                  *)
(***************************************************************************)
NAddrs == 2
Addrs == 1..NAddrs
MaxAccepts == 2

NewConnection ==
    [alive |-> TRUE, closing |-> FALSE, subsriberMode |-> FALSE, rooms |-> <<>>]
NoConnection ==
    [alive |-> FALSE, closing |-> FALSE, subsriberMode |-> FALSE, rooms |-> <<>>]
FreedConnection ==
    [alive |-> FALSE, closing |-> TRUE, subsriberMode |-> FALSE, rooms |-> <<>>]

\* IOHandler::write(buf, len), as the handlers see it: the bytes are taken.
write(st, a, bytes) ==
    [st EXCEPT !.wlog = Append(@, [conn |-> a, bytes |-> bytes])]

\* IOHandler::close(): closing = true, ::close(fd), delete this.  Nothing is
\* removed from allRooms.
close(st, a) == [st EXCEPT !.conns[a] = FreedConnection]

\* What the environment decides during one event: the store's answer, the
\* value an uninitialised int holds, what a write through a pointer to a
\* deleted connection does ("crash": the process dies; "lost": the call
\* returns with nothing visible done), the value run_command hands back
\* when it runs off its end without a return statement (0 or not), and
\* what a read outside the trie's children does ("crash": the process dies
\* on the pointer read there; "null": a null pointer is read there).
UninitInts == {-7, 0, 3}
DefaultEnv ==
    [store |-> "ok", nsent |-> 0, uaf |-> "lost", ret |-> 0, oob |-> "null"]

\* A handler is entered, a call of the store is made.
note(st, what) == [st EXCEPT !.hlog = Append(@, what)]

\* RedisConnection::run_command_get
run_command_get(st, a, args, env) ==
    LET key == args[1].str
        s   == DbGet(st.db, key, env.store)
        st1 == note(st, "db.Get")
    IN  IF s.status = "notfound" THEN write(st1, a, RESPNilConst)
        ELSE IF s.status # "ok" THEN write(st1, a, ERR_GET)
        ELSE write(st1, a, <<"$">> \o DecStr(Len(s.val)) \o CRLF \o s.val \o CRLF)

\* A mutant of run_command_set: key and value passed to Put in the wrong
\* order.
run_command_set_Swapped(st, a, args, env) ==
    LET s   == DbPut(st.db, args[2].str, args[1].str, env.store)
        st1 == note(st, "db.Put")
    IN  IF s.status # "ok" THEN write(st1, a, ERR_SET)
        ELSE write([st1 EXCEPT !.db = s.db], a, RESPOKConst)

\* RedisConnection::run_command_set
run_command_set(st, a, args, env) ==
    LET key == args[1].str
        val == args[2].str
        s   == DbPut(st.db, key, val, env.store)
        st1 == note(st, "db.Put")
    IN  IF s.status # "ok" THEN write(st1, a, ERR_SET)
        ELSE write([st1 EXCEPT !.db = s.db], a, RESPOKConst)

\* RedisConnection::run_command_command
run_command_command(st, a, args, env) == write(st, a, RESPOKConst)

Contains(seq, x) == \E j \in 1..Len(seq) : seq[j] = x

\* A mutant of SubscribeReply: the count is the room's number of
\* subscribers.
SubscribeReply_RoomTotal(st, a, room_str) ==
    <<"*", "3">> \o CRLF
      \o <<"$">> \o DecStr(Len(subscribe_str)) \o CRLF \o subscribe_str \o CRLF
      \o <<"$">> \o DecStr(Len(room_str)) \o CRLF \o room_str \o CRLF
      \o <<":">> \o DecStr(Len(st.allRooms[room_str])) \o CRLF

\* The reply run_command_subscribe builds for one room name: the count is
\* rooms.size() of the connection.
SubscribeReply(st, a, room_str) ==
    <<"*", "3">> \o CRLF
      \o <<"$">> \o DecStr(Len(subscribe_str)) \o CRLF \o subscribe_str \o CRLF
      \o <<"$">> \o DecStr(Len(room_str)) \o CRLF \o room_str \o CRLF
      \o <<":">> \o DecStr(Len(st.conns[a].rooms)) \o CRLF

\* for(i = 0; i < argc; i++) of run_command_subscribe (i counts from 1 here)
RECURSIVE SubscribeLoop(_, _, _, _)
SubscribeLoop(st, a, args, i) ==
    IF i > Len(args) THEN st
    ELSE
      LET room_str == args[i].str
          found    == Contains(st.conns[a].rooms, room_str)
          connvec  == IF room_str \in DOMAIN st.allRooms
                      THEN st.allRooms[room_str] ELSE <<>>
          st1      == IF found THEN st
                      ELSE [st EXCEPT
                              !.conns[a].rooms = Append(@, room_str),
                              !.allRooms = (room_str :> Append(connvec, a)) @@ @]
      IN  SubscribeLoop(write(st1, a, SubscribeReply(st1, a, room_str)),
                        a, args, i + 1)

\* A mutant of run_command_subscribe: subsriberMode is not set.
run_command_subscribe_NoMode(st, a, args, env) ==
    SubscribeLoop(st, a, args, 1)

\* RedisConnection::run_command_subscribe
run_command_subscribe(st, a, args, env) ==
    SubscribeLoop([st EXCEPT !.conns[a].subsriberMode = TRUE], a, args, 1)

\* RedisConnection::run_command_unsubscribe: sets two locals and returns.
run_command_unsubscribe(st, a, args, env) == st

\* for(i = 0; i < connvec.size(); i++) conn->write(msg) of
\* run_command_publish.  A pointer to a deleted connection is used as it is.
RECURSIVE PublishLoop(_, _, _, _, _)
PublishLoop(st, connvec, msg_str, i, env) ==
    IF i > Len(connvec) \/ st.crashed THEN st
    ELSE LET conn == connvec[i]
             st1  == IF st.conns[conn].alive THEN write(st, conn, msg_str)
                     ELSE IF env.uaf = "crash" THEN [st EXCEPT !.crashed = TRUE]
                     ELSE IF env.uaf = "sent" THEN write(st, conn, msg_str)
                     ELSE st
         IN  PublishLoop(st1, connvec, msg_str, i + 1, env)

\* RedisConnection::run_command_publish.  nsent is set only when the room
\* has an entry.
run_command_publish(st, a, args, env) ==
    LET room_str == args[1].str
        value    == args[2].str
        msg_str  == <<"*", "3">> \o CRLF
                      \o <<"$">> \o DecStr(Len(message_str)) \o CRLF
                      \o message_str \o CRLF
                      \o <<"$">> \o DecStr(Len(room_str)) \o CRLF
                      \o room_str \o CRLF
                      \o <<"$">> \o DecStr(Len(value)) \o CRLF \o value \o CRLF
        present  == room_str \in DOMAIN st.allRooms
        st1      == IF present
                    THEN PublishLoop(st, st.allRooms[room_str], msg_str, 1, env)
                    ELSE st
        nsent    == IF present THEN Len(st.allRooms[room_str]) ELSE env.nsent
    IN  IF st1.crashed THEN st1
        ELSE write(st1, a, <<":">> \o DecStr(nsent) \o CRLF)

\* (this->*(entry->handler))(argc, args)
CallHandler(entry, st0, a, args, env) ==
    LET st == note(st0, entry.handler)
    IN
    CASE entry.handler = "run_command_get"         -> run_command_get(st, a, args, env)
      [] entry.handler = "run_command_set"         -> run_command_set(st, a, args, env)
      [] entry.handler = "run_command_command"     -> run_command_command(st, a, args, env)
      [] entry.handler = "run_command_subscribe"   -> run_command_subscribe(st, a, args, env)
      [] entry.handler = "run_command_unsubscribe" -> run_command_unsubscribe(st, a, args, env)
      [] entry.handler = "run_command_publish"     -> run_command_publish(st, a, args, env)

\* A mutant of run_command: the number of arguments is not checked against
\* maxArgs.
run_command_NoMaxCheck(st, a, pObj, env) ==
    IF pObj.type # RESPTypeArray THEN write(st, a, RESP_ERROR_NOT_ARRAY)
    ELSE IF Len(pObj.items) = 0 THEN write(st, a, RESPOKConst)
    ELSE IF \E i \in 1..Len(pObj.items) : pObj.items[i].type # RESPTypeBulkString
      THEN write(st, a, ERR_NOT_BULK)
    ELSE
      LET cmd   == ToUpperStr(pObj.items[1].str)
          found == TrieGet(RedisCommandStore, cmd)
          entry == IF found = OutOfBounds THEN NULL ELSE found
          argc  == Len(pObj.items) - 1
          args  == SubSeq(pObj.items, 2, Len(pObj.items))
      IN  IF found = OutOfBounds /\ env.oob = "crash"
            THEN [st EXCEPT !.crashed = TRUE]
          ELSE IF entry = NULL THEN write(st, a, ErrUnknownCommand(cmd))
          ELSE IF argc < entry.minArgs
            THEN write(st, a, ErrWrongArgs(cmd))
          ELSE IF st.conns[a].subsriberMode /\ ~entry.allowInSubMode
            THEN write(st, a, ERR_SUB_MODE)
          ELSE [CallHandler(entry, st, a, args, env) EXCEPT !.ret = env.ret]

\* RedisConnection::run_command.  Every rejection ends in "return 0"; after
\* the handler the function ends without a return statement, and what the
\* caller then reads as its value is not defined (st.ret).
run_command(st, a, pObj, env) ==
    IF pObj.type # RESPTypeArray THEN write(st, a, RESP_ERROR_NOT_ARRAY)
    ELSE IF Len(pObj.items) = 0 THEN write(st, a, RESPOKConst)
    ELSE IF \E i \in 1..Len(pObj.items) : pObj.items[i].type # RESPTypeBulkString
      THEN write(st, a, ERR_NOT_BULK)
    ELSE
      LET cmd   == ToUpperStr(pObj.items[1].str)
          found == TrieGet(RedisCommandStore, cmd)
          entry == IF found = OutOfBounds THEN NULL ELSE found
          argc  == Len(pObj.items) - 1
          args  == SubSeq(pObj.items, 2, Len(pObj.items))
      IN  IF found = OutOfBounds /\ env.oob = "crash"
            THEN [st EXCEPT !.crashed = TRUE]
          ELSE IF entry = NULL THEN write(st, a, ErrUnknownCommand(cmd))
          ELSE IF argc < entry.minArgs \/ argc > entry.maxArgs
            THEN write(st, a, ErrWrongArgs(cmd))
          ELSE IF st.conns[a].subsriberMode /\ ~entry.allowInSubMode
            THEN write(st, a, ERR_SUB_MODE)
          ELSE [CallHandler(entry, st, a, args, env) EXCEPT !.ret = env.ret]

(***************************************************************************)
(* Clients.  A request is the RESP array of bulk strings a client encodes  *)
(* and sends in one piece; BadBytes are bytes no RESP value starts with.   *)
(***************************************************************************)
Bulk(s) == RESPBuffer(RESPTypeBulkString, s)
Request(words) == RESPArray(RESPTypeArray, [k \in 1..Len(words) |-> Bulk(words[k])])

GET_str         == RedisCommandsList[1].name
SET_str         == RedisCommandsList[2].name
COMMAND_str     == RedisCommandsList[3].name
SUBSCRIBE_str   == RedisCommandsList[4].name
UNSUBSCRIBE_str == RedisCommandsList[5].name
PUBLISH_str     == RedisCommandsList[6].name

KeyK  == <<"k">>
ValV  == <<"v">>
ValWW == <<"w", "w">>
RoomA == <<"a">>
RoomB == <<"b">>
MsgP  == <<"p">>

KVRequests ==
    { Request(<<GET_str, KeyK>>),
      Request(<<<<"g", "e", "t">>, KeyK>>),
      Request(<<SET_str, KeyK, ValV>>),
      Request(<<SET_str, KeyK, ValWW>>),
      Request(<<COMMAND_str>>),
      Request(<<SUBSCRIBE_str, RoomA>>) }

PubSubRequests ==
    { Request(<<SUBSCRIBE_str, RoomA>>),
      Request(<<SUBSCRIBE_str, RoomA, RoomB>>),
      Request(<<UNSUBSCRIBE_str>>),
      Request(<<UNSUBSCRIBE_str, RoomA>>),
      Request(<<PUBLISH_str, RoomA, MsgP>>),
      Request(<<PUBLISH_str, RoomB, MsgP>>),
      Request(<<COMMAND_str>>) }

\* Requests that run_command turns down, or that take the shape of no
\* command: wrong numbers of arguments, names the command table does not
\* hold, values that are not arrays of bulk strings, inline lines.
FOO_str == <<"F", "O", "O">>

WrongArgsRequests ==
    { Request(<<GET_str>>),
      Request(<<GET_str, KeyK, KeyK>>),
      Request(<<SET_str, KeyK>>),
      Request(<<SET_str, KeyK, ValV, ValV, ValV, ValV>>),
      Request(<<COMMAND_str, KeyK>>),
      Request(<<SUBSCRIBE_str>>),
      Request(<<PUBLISH_str, RoomA>>),
      Request(<<PUBLISH_str, RoomA, MsgP, MsgP>>) }

UnknownRequests ==
    { Request(<<FOO_str>>),
      Request(<<<<>>>>),
      Request(<<<<"S", "U", "B">>, RoomA>>),
      Request(<<<<"g", "e", "t", "x">>, KeyK>>),
      Request(<<<<"G", "E", "T", " ">>, KeyK>>),
      Request(<<<<"G", "E", HI>>, KeyK>>) }

ShapelessValues ==
    { RESPBuffer(RESPTypeSimpleString, COMMAND_str),
      RESPInteger(5),
      Bulk(COMMAND_str),
      NilBulk,
      NilArray,
      RESPArray(RESPTypeArray, <<>>),
      RESPArray(RESPTypeArray, <<Bulk(GET_str), RESPInteger(1)>>),
      RESPArray(RESPTypeArray, <<Bulk(GET_str), NilBulk>>),
      RESPArray(RESPTypeArray,
                <<RESPBuffer(RESPTypeSimpleString, GET_str), Bulk(KeyK)>>),
      RESPArray(RESPTypeArray,
                <<Bulk(GET_str), RESPArray(RESPTypeArray, <<Bulk(KeyK)>>)>>) }

InlineRequests ==
    { InlineLine(COMMAND_str),
      InlineLine(<<"c", "o", "m", "m", "a", "n", "d">>),
      InlineLine(<<"G", "E", "T", " ", "k">>),
      InlineLine(<<>>) }

DispatchRequests ==
    { Request(<<GET_str, KeyK>>),
      Request(<<SET_str, KeyK, ValV>>),
      Request(<<COMMAND_str>>),
      Request(<<SUBSCRIBE_str, RoomA>>) }
      \cup WrongArgsRequests \cup UnknownRequests
      \cup ShapelessValues \cup InlineRequests

\* Bytes that are no RESP value (a CR not followed by LF), alone, before a
\* well-formed SET and after a well-formed COMMAND.
BadLine == <<"+", "O", CR, "K">>

BadBytes ==
    { BadLine,
      BadLine \o Encode(Request(<<SET_str, KeyK, ValV>>)),
      Encode(Request(<<COMMAND_str>>)) \o BadLine }

\* Two requests that arrive in one read: one that is turned down or that
\* the store may fail, and a well-formed one after it.
Pipelines ==
    { <<Request(<<FOO_str>>), Request(<<COMMAND_str>>)>>,
      <<Request(<<GET_str>>), Request(<<COMMAND_str>>)>>,
      <<Request(<<GET_str, KeyK>>), Request(<<COMMAND_str>>)>> }

AllRequests == KVRequests \cup PubSubRequests \cup DispatchRequests

\* What one read() of a connection returns: buf, the bytes; req, the value
\* the client encoded first in them (NULL when the bytes are malformed).
ClientInputs ==
    {[req |-> r, buf |-> Encode(r)] : r \in AllRequests}
      \cup {[req |-> NULL, buf |-> b] : b \in BadBytes}

PipelinedInputs ==
    {[req |-> p[1], buf |-> Encode(p[1]) \o Encode(p[2])] : p \in Pipelines}

\* parser.parse(buf, res) of a parser in its initial state, for each buf a
\* client sends.
FreshParse ==
    [b \in {in.buf : in \in ClientInputs \cup PipelinedInputs} |->
        parse(NewParser, b)]

\* parser.parse(buf + n, res - n)
ParseFrom(ps, bytes) ==
    IF ps = NewParser /\ bytes \in DOMAIN FreshParse
    THEN FreshParse[bytes] ELSE parse(ps, bytes)

\* while(n < res) of handle_readable, in its steps.
RECURSIVE ReadLoop(_, _, _, _, _, _)

\* if(this->run_command(parser.grab())) return 0; n += ni: st1 is the server
\* after run_command, the loop goes on unless its value is not 0.
AfterRun(st1, a, ps, buf, n, env) ==
    IF st1.crashed \/ st1.ret # 0 THEN st1
    ELSE ReadLoop(st1, a, ps, buf, n, env)

\* this->run_command(parser.grab()), g what grab() gave.
AfterGrab(st, a, g, buf, n, env) ==
    AfterRun(run_command([st EXCEPT !.ret = 0], a, g.obj, env),
             a, g.ps, buf, n, env)

\* A mutant of AfterParse: the loop without its test for an invalid parser.
AfterParse_NoInvalidCheck(st, a, r, buf, n, env) ==
    IF r.n = 0 THEN close(st, a)
    ELSE IF status(r.ps) = RESPParserStatusDone
      THEN AfterGrab(st, a, grab(r.ps), buf, n + r.n, env)
    ELSE ReadLoop(st, a, r.ps, buf, n + r.n, env)

\* What follows int ni = parser.parse(buf + n, res - n), r the parser after
\* the call and ni.  A parse that consumes nothing, or ends Invalid, closes
\* the connection; a value that completes is run.
AfterParse(st, a, r, buf, n, env) ==
    IF r.n = 0 THEN close(st, a)
    ELSE IF status(r.ps) = RESPParserStatusInvalid THEN close(st, a)
    ELSE IF status(r.ps) = RESPParserStatusDone
      THEN AfterGrab(st, a, grab(r.ps), buf, n + r.n, env)
    ELSE ReadLoop(st, a, r.ps, buf, n + r.n, env)

ReadLoop(st, a, ps, buf, n, env) ==
    IF n >= Len(buf) THEN st
    ELSE AfterParse(st, a, ParseFrom(ps, SubSeq(buf, n + 1, Len(buf))),
                    buf, n, env)

\* RedisConnection::handle_readable, for a read() that returns buf (the
\* read() after it returns no more).  The bytes of a read start a value,
\* and the parser they meet is the one grab() left or a new one; both
\* start from state Type with no value and an empty stack.
handle_readable(st, a, buf, env) == ReadLoop(st, a, NewParser, buf, 0, env)

\* The command a request names and its arguments, as the client sees them.
IsRequest(req) ==
    /\ req # NULL
    /\ req.type = RESPTypeArray
    /\ Len(req.items) >= 1
    /\ \A k \in 1..Len(req.items) : req.items[k].type = RESPTypeBulkString
ReqName(req) == IF IsRequest(req) THEN ToUpperStr(req.items[1].str) ELSE <<>>
ReqArgs(req) == [k \in 1..(Len(req.items) - 1) |-> req.items[k + 1].str]

\* What is left to the environment when in arrives: the store's answer to
\* GET and SET, the value of the unset nsent when PUBLISH finds no entry
\* for the room, the outcome of a write through a dangling pointer when
\* PUBLISH finds one in the room's list, the value of run_command when a
\* handler has run and bytes are left in the buffer, what the trie reads
\* for a byte of the name above 0x7F.
EnvsFor(in) ==
    LET req    == in.req
        name   == ReqName(req)
        argc   == Len(req.items) - 1
        room   == req.items[2].str
        stores == IF name \in {GET_str, SET_str} THEN {"ok", "error"} ELSE {"ok"}
        nsents == IF name = PUBLISH_str /\ argc = 2 /\ room \notin DOMAIN allRooms
                  THEN UninitInts ELSE {0}
        uafs   == IF /\ name = PUBLISH_str
                     /\ argc = 2
                     /\ room \in DOMAIN allRooms
                     /\ \E j \in 1..Len(allRooms[room]) :
                           ~conns[allRooms[room][j]].alive
                  THEN {"crash", "lost", "sent"} ELSE {"lost"}
        rets   == IF \/ in \in PipelinedInputs
                     \/ in.buf = Encode(Request(<<COMMAND_str>>)) \o BadLine
                  THEN {0, 1} ELSE {0}
        oobs   == IF /\ IsRequest(req)
                     /\ \E k \in 1..Len(req.items[1].str) :
                           SChar(req.items[1].str[k]) < 0
                  THEN {"crash", "null"} ELSE {"null"}
    IN  [store : stores, nsent : nsents, uaf : uafs, ret : rets, oob : oobs]

\* The value a key holds for its clients: that of the last SET of the key
\* answered +OK.
NoteSet(ls, req, log) ==
    IF /\ ReqName(req) = SET_str
       /\ Len(req.items) = 3
       /\ log = <<[conn |-> log[1].conn, bytes |-> RESPOKConst]>>
    THEN (req.items[2].str :> req.items[3].str) @@ ls
    ELSE ls

Init ==
    /\ db = <<>>
    /\ allRooms = <<>>
    /\ conns = [a \in Addrs |-> NoConnection]
    /\ accepted = 0
    /\ crashed = FALSE
    /\ last = [ev |-> "init", conn |-> 0, req |-> NULL, buf |-> <<>>,
               env |-> DefaultEnv]
    /\ wlog = <<>>
    /\ lastSet = <<>>
    /\ hlog = <<>>
    /\ ParserIdle
    /\ IOIdle
    /\ PollerIdle
    /\ TrieIdle

\* RedisServer::handle(PollerStateReadable, num): num connections are
\* accepted, each a new RedisConnection at an address the allocator picks
\* among those not in use.
Accept(Pool) ==
    /\ ~crashed
    /\ \E S \in SUBSET {a \in Pool : ~conns[a].alive} :
         /\ S # {}
         /\ accepted + Cardinality(S) <= MaxAccepts
         /\ conns' = [a \in Addrs |-> IF a \in S THEN NewConnection ELSE conns[a]]
         /\ accepted' = accepted + Cardinality(S)
    /\ last' = [ev |-> "accept", conn |-> 0, req |-> NULL, buf |-> <<>>,
                env |-> DefaultEnv]
    /\ wlog' = <<>>
    /\ hlog' = <<>>
    /\ UNCHANGED <<db, allRooms, crashed, lastSet>>
    /\ UNCHANGED pvars
    /\ UNCHANGED ovars

\* IOHandler::handle(PollerStateReadable, _) of connection a.
Readable(a, Reqs, More) ==
    /\ ~crashed
    /\ conns[a].alive
    /\ \E in \in {x \in ClientInputs : x.req = NULL \/ x.req \in Reqs} \cup More :
       \E env \in EnvsFor(in) :
         \E st1 \in {handle_readable(
                        [db |-> db, allRooms |-> allRooms, conns |-> conns,
                         crashed |-> FALSE, wlog |-> <<>>, hlog |-> <<>>,
                         ret |-> 0], a, in.buf, env)} :
             /\ db' = st1.db
             /\ allRooms' = st1.allRooms
             /\ conns' = st1.conns
             /\ crashed' = st1.crashed
             /\ wlog' = st1.wlog
             /\ hlog' = st1.hlog
             /\ last' = [ev |-> "readable", conn |-> a, req |-> in.req,
                         buf |-> in.buf, env |-> env]
             /\ lastSet' = NoteSet(lastSet, in.req, st1.wlog)
    /\ UNCHANGED accepted
    /\ UNCHANGED pvars
    /\ UNCHANGED ovars

\* IOHandler::handle(PollerStateWriteEOF, _) of connection a; empty tells
\* whether write_buf.size() == 0.
WriteEOF(a) ==
    /\ ~crashed
    /\ conns[a].alive
    /\ \E empty \in BOOLEAN :
         LET st0 == [db |-> db, allRooms |-> allRooms, conns |-> conns,
                     crashed |-> FALSE, wlog |-> <<>>, hlog |-> <<>>, ret |-> 0]
         IN  conns' = IF empty THEN close(st0, a).conns ELSE conns
    /\ last' = [ev |-> "writeeof", conn |-> a, req |-> NULL, buf |-> <<>>,
                env |-> DefaultEnv]
    /\ wlog' = <<>>
    /\ hlog' = <<>>
    /\ UNCHANGED <<db, allRooms, accepted, crashed, lastSet>>
    /\ UNCHANGED pvars
    /\ UNCHANGED ovars

\* The server with clients that subscribe, unsubscribe and publish.
Next ==
    \/ Accept(Addrs)
    \/ \E a \in Addrs : Readable(a, PubSubRequests, {})
    \/ \E a \in Addrs : WriteEOF(a)

Spec == Init /\ [][Next]_vars

\* The server with clients that use the key-value commands.
NextKV ==
    \/ Accept(Addrs)
    \/ \E a \in Addrs : Readable(a, KVRequests, {})
    \/ \E a \in Addrs : WriteEOF(a)

SpecKV == Init /\ [][NextKV]_vars

\* The server with one client at a time, which sends every kind of request
\* run_command tells apart, and two requests in one read.
NextDispatch ==
    \/ Accept({1})
    \/ Readable(1, DispatchRequests, PipelinedInputs)
    \/ WriteEOF(1)

SpecDispatch == Init /\ [][NextDispatch]_vars

(***************************************************************************)
(* What the claims speak of.                                               *)
(***************************************************************************)
Range(seq) == {seq[j] : j \in 1..Len(seq)}

\* The last event was connection last.conn reading the request named name.
LastIs(name) ==
    /\ last.ev = "readable"
    /\ last.req # NULL
    /\ ReqName(last.req) = name

\* The subscriber list of a room, empty when the registry has no entry.
Subscribers(room) == IF room \in DOMAIN allRooms THEN allRooms[room] ELSE <<>>

\* The write of one reply value to connection a.
Reply(a, v) == [conn |-> a, bytes |-> Encode(v)]

\* The reply to GET key that the SETs answered +OK so far call for.
GetExpected(key) ==
    IF key \in DOMAIN lastSet THEN Bulk(lastSet[key]) ELSE NilBulk

(***************************************************************************)
(* C2  GET after SET: a GET k on a connection that is not in subscriber    *)
(* mode, whose read of the store does not fail, is answered with exactly   *)
(* one write, to the issuing connection: the bulk string holding the value *)
(* of the most recent SET k answered +OK, by whichever connection, and the *)
(* Nil bulk reply when there was none.  A GET k on a connection in         *)
(* subscriber mode is answered with the error "not allowed in subscription *)
(* mode", and one whose read of the store fails with "Failed to get key".  *)
(***************************************************************************)
GetAfterSet ==
    (LastIs(GET_str) /\ Len(last.req.items) = 2) =>
      wlog = <<[conn  |-> last.conn,
                bytes |-> IF conns[last.conn].subsriberMode THEN ERR_SUB_MODE
                          ELSE IF last.env.store # "ok" THEN ERR_GET
                          ELSE Encode(GetExpected(last.req.items[2].str))]>>

\* C2 as written: every GET k is answered so, whatever the connection's
\* mode and the store's answer.
GetAfterSetAlways ==
    (LastIs(GET_str) /\ Len(last.req.items) = 2)
    => wlog = <<Reply(last.conn, GetExpected(last.req.items[2].str))>>

\* C2: with two connections accepted, a GET k is answered with the value ww
\* of the last SET k.
GetAfterSetWitness ==
    /\ LastIs(GET_str)
    /\ ~conns[last.conn].subsriberMode
    /\ last.env.store = "ok"
    /\ accepted = 2
    /\ KeyK \in DOMAIN lastSet
    /\ lastSet[KeyK] = ValWW
    /\ wlog = <<[conn |-> last.conn,
                 bytes |-> <<"$", "2", CR, LF, "w", "w", CR, LF>>]>>

\* The message PUBLISH room payload sends to a subscriber.
Message(room, payload) ==
    RESPArray(RESPTypeArray, <<Bulk(message_str), Bulk(room), Bulk(payload)>>)

\* The last event was a PUBLISH that reached its handler: the publisher is
\* not in subscriber mode.
PublishRan == LastIs(PUBLISH_str) /\ ~conns[last.conn].subsriberMode

(***************************************************************************)
(* C3  PUBLISH fan-out: a PUBLISH room payload that runs writes the        *)
(* message ["message", room, payload] exactly once to every connection in  *)
(* the room's subscriber list, in list order, and to no other connection   *)
(* (the one write after them is the reply to the publisher).               *)
(***************************************************************************)
PublishFanOut ==
    PublishRan =>
      LET room == last.req.items[2].str
          list == Subscribers(room)
          msg  == Message(room, last.req.items[3].str)
      IN  /\ ~crashed
          /\ Len(wlog) = Len(list) + 1
          /\ \A j \in 1..Len(list) : wlog[j] = Reply(list[j], msg)
          /\ \A j, k \in 1..Len(list) : j # k => list[j] # list[k]

(***************************************************************************)
(* C4  PUBLISH reply: the last write of a PUBLISH that runs is the Integer *)
(* reply to the publisher, equal to the number of message writes made      *)
(* before it, and 0 when the room has no entry in the registry.            *)
(***************************************************************************)
PublishReplyCount ==
    PublishRan =>
      /\ ~crashed
      /\ Len(wlog) >= 1
      /\ wlog[Len(wlog)] = Reply(last.conn, RESPInteger(Len(wlog) - 1))
      /\ last.req.items[2].str \notin DOMAIN allRooms =>
            wlog = <<Reply(last.conn, RESPInteger(0))>>

(***************************************************************************)
(* C5  Room registry invariant: a connection is in a room's subscriber     *)
(* list if and only if it is open and the room is in its own room set; no  *)
(* list and no room set holds an entry twice.                              *)
(***************************************************************************)
NoDuplicates(seq) == \A j, k \in 1..Len(seq) : j # k => seq[j] # seq[k]

RoomRegistryInvariant ==
    /\ \A a \in Addrs : \A room \in {RoomA, RoomB} :
          (a \in Range(Subscribers(room)))
            <=> (conns[a].alive /\ room \in Range(conns[a].rooms))
    /\ \A room \in DOMAIN allRooms : NoDuplicates(allRooms[room])
    /\ \A a \in Addrs : NoDuplicates(conns[a].rooms)

(***************************************************************************)
(* C6  Close removes from rooms: no subscriber list refers to a closed     *)
(* (deleted) connection, and no PUBLISH writes through such a reference.   *)
(***************************************************************************)
NoClosedInRegistry ==
    /\ \A room \in DOMAIN allRooms :
          \A j \in 1..Len(allRooms[room]) : conns[allRooms[room][j]].alive
    /\ ~crashed

\* The replies SUBSCRIBE names calls for from a connection whose room set
\* is roomset: one per name, the count being the size of the set once the
\* name is in it.
RECURSIVE SubscribeExpected(_, _, _)
SubscribeExpected(a, roomset, names) ==
    IF names = <<>> THEN <<>>
    ELSE LET now == roomset \cup {Head(names)}
         IN  <<Reply(a, RESPArray(RESPTypeArray,
                        <<Bulk(subscribe_str), Bulk(Head(names)),
                          RESPInteger(Cardinality(now))>>))>>
               \o SubscribeExpected(a, now, Tail(names))

(***************************************************************************)
(* C7  SUBSCRIBE replies: a SUBSCRIBE writes, to the issuing connection    *)
(* only, one reply ["subscribe", name, count] per name given, in argument  *)
(* order, count being the size of the connection's own room set once that  *)
(* name has been processed; the number of subscribers of the room plays no *)
(* part.                                                                   *)
(***************************************************************************)
SubscribeReplies ==
    [][ LastIs(SUBSCRIBE_str)' =>
          wlog' = SubscribeExpected(last'.conn,
                                    Range(conns[last'.conn].rooms),
                                    ReqArgs(last'.req)) ]_vars

\* C7: a connection already in room a, which another connection joined
\* after it, has sent SUBSCRIBE a b: the replies count 1, then 2, while
\* room a has two subscribers.
SubscribeRepliesWitness ==
    /\ LastIs(SUBSCRIBE_str)
    /\ ReqArgs(last.req) = <<RoomA, RoomB>>
    /\ accepted = 2
    /\ \A a \in Addrs : conns[a].alive
    /\ Len(Subscribers(RoomA)) = 2
    /\ Subscribers(RoomA)[1] = last.conn
    /\ Len(wlog) = 2
    /\ wlog[1].bytes = <<"*", "3", CR, LF,
                         "$", "9", CR, LF,
                         "s", "u", "b", "s", "c", "r", "i", "b", "e", CR, LF,
                         "$", "1", CR, LF, "a", CR, LF,
                         ":", "1", CR, LF>>

\* The rooms an UNSUBSCRIBE with arguments names is about, for a connection
\* whose rooms are rooms: those named, or all of rooms when none is named.
UnsubscribeNames(rooms, names) == IF names = <<>> THEN rooms ELSE names

(***************************************************************************)
(* C8  UNSUBSCRIBE removes: after UNSUBSCRIBE naming room r, or with no    *)
(* name for every room of the connection, the connection is not in r's     *)
(* subscriber list and r is not in the connection's room set.              *)
(***************************************************************************)
UnsubscribeRemoves ==
    [][ LastIs(UNSUBSCRIBE_str)' =>
          \A r \in Range(UnsubscribeNames(conns[last'.conn].rooms,
                                          ReqArgs(last'.req))) :
            /\ r \notin Range(conns'[last'.conn].rooms)
            /\ r \in DOMAIN allRooms' => last'.conn \notin Range(allRooms'[r]) ]_vars

\* The replies an UNSUBSCRIBE of names calls for from a connection whose
\* room set is roomset: one per room it leaves, with the size of the set
\* after leaving it.
RECURSIVE UnsubscribeExpected(_, _, _)
UnsubscribeExpected(a, roomset, names) ==
    IF names = <<>> THEN <<>>
    ELSE IF Head(names) \notin roomset
      THEN UnsubscribeExpected(a, roomset, Tail(names))
    ELSE LET now == roomset \ {Head(names)}
         IN  <<Reply(a, RESPArray(RESPTypeArray,
                        <<Bulk(unsubscribe_str), Bulk(Head(names)),
                          RESPInteger(Cardinality(now))>>))>>
               \o UnsubscribeExpected(a, now, Tail(names))

(***************************************************************************)
(* C9  UNSUBSCRIBE replies: an UNSUBSCRIBE writes to the issuing           *)
(* connection one reply ["unsubscribe", room, count] for each room it      *)
(* leaves, count being the size of the connection's room set after that    *)
(* room is removed.                                                        *)
(***************************************************************************)
UnsubscribeReplies ==
    [][ LastIs(UNSUBSCRIBE_str)' =>
          wlog' = UnsubscribeExpected(
                    last'.conn,
                    Range(conns[last'.conn].rooms),
                    UnsubscribeNames(conns[last'.conn].rooms,
                                     ReqArgs(last'.req))) ]_vars

(***************************************************************************)
(* C10  Leaving subscriber mode: when an UNSUBSCRIBE leaves a connection   *)
(* in subscriber mode with no room (it names every room of the connection, *)
(* or none at all), the connection is in normal mode afterwards.           *)
(***************************************************************************)
UnsubscribeExitsSubscriberMode ==
    [][ ( /\ LastIs(UNSUBSCRIBE_str)'
          /\ conns[last'.conn].subsriberMode
          /\ Range(conns[last'.conn].rooms)
               \subseteq Range(UnsubscribeNames(conns[last'.conn].rooms,
                                                ReqArgs(last'.req))) )
        => ~conns'[last'.conn].subsriberMode ]_vars

\* The entry of the command table a request names.
EntryOf(req) ==
    CHOOSE e \in Range(RedisCommandsList) : e.name = ReqName(req)

\* A step in which connection last'.conn, in subscriber mode before it,
\* reads a request naming one of Names with a number of arguments the
\* command table allows.
ReadsInSubscriberMode(Names) ==
    /\ last'.ev = "readable"
    /\ IsRequest(last'.req)
    /\ last'.buf = Encode(last'.req)
    /\ ReqName(last'.req) \in Names
    /\ Len(ReqArgs(last'.req)) >= EntryOf(last'.req).minArgs
    /\ Len(ReqArgs(last'.req)) <= EntryOf(last'.req).maxArgs
    /\ conns[last'.conn].subsriberMode

\* The event handled last entered the handler of its request and wrote no
\* "not allowed in subscription mode" error.
DispatchedNotRejected ==
    /\ hlog # <<>>
    /\ hlog[1] = EntryOf(last.req).handler
    /\ \A j \in 1..Len(wlog) : wlog[j].bytes # ERR_SUB_MODE

\* The event handled last entered no handler and wrote the one error
\* "not allowed in subscription mode" to its connection.
RejectedInSubscriberMode ==
    /\ hlog = <<>>
    /\ wlog = <<[conn |-> last.conn, bytes |-> ERR_SUB_MODE]>>

(***************************************************************************)
(* C11  Commands in subscriber mode: on a connection in subscriber mode,   *)
(* SUBSCRIBE and UNSUBSCRIBE with a valid number of arguments are          *)
(* dispatched to their handlers and not rejected; PUBLISH and COMMAND with *)
(* a valid number of arguments are rejected with the error "not allowed in *)
(* subscription mode" and their handlers are not entered.                  *)
(***************************************************************************)
SubscriberModeCommands ==
    [][ /\ ReadsInSubscriberMode({SUBSCRIBE_str, UNSUBSCRIBE_str})
          => DispatchedNotRejected'
        /\ ReadsInSubscriberMode({PUBLISH_str, COMMAND_str})
          => RejectedInSubscriberMode' ]_vars

\* C11 as written: all of SUBSCRIBE, UNSUBSCRIBE, PUBLISH and COMMAND are
\* dispatched and not rejected on a connection in subscriber mode.
SubscriberModeAllowsFour ==
    [][ ReadsInSubscriberMode({SUBSCRIBE_str, UNSUBSCRIBE_str,
                               PUBLISH_str, COMMAND_str})
          => DispatchedNotRejected' ]_vars

\* C11: a connection subscribed to room a has sent PUBLISH a p and got the
\* error; nothing was sent to the room.
SubscriberModeCommandsWitness ==
    /\ LastIs(PUBLISH_str)
    /\ conns[last.conn].subsriberMode
    /\ last.conn \in Range(Subscribers(RoomA))
    /\ ReqArgs(last.req) = <<RoomA, MsgP>>
    /\ RejectedInSubscriberMode

\* An error reply: one write to connection a of a line that starts with "-"
\* and ends with CR LF.
IsErrorReply(w, a) ==
    /\ w.conn = a
    /\ Len(w.bytes) >= 3
    /\ w.bytes[1] = "-"
    /\ SubSeq(w.bytes, Len(w.bytes) - 1, Len(w.bytes)) = CRLF

\* A step in which a connection reads, alone in its buffer, a request whose
\* name is in Names with a number of arguments the command table allows.
ReadsValid(Names) ==
    /\ last'.ev = "readable"
    /\ IsRequest(last'.req)
    /\ last'.buf = Encode(last'.req)
    /\ ReqName(last'.req) \in Names
    /\ Len(ReqArgs(last'.req)) >= EntryOf(last'.req).minArgs
    /\ Len(ReqArgs(last'.req)) <= EntryOf(last'.req).maxArgs

(***************************************************************************)
(* C12  GET and SET of a subscribed connection: a connection that has at   *)
(* least one subscribed room (so has executed a SUBSCRIBE) gets exactly    *)
(* one error reply to every GET or SET with a valid number of arguments;   *)
(* no handler is entered, the store is neither read nor written, and the   *)
(* connection stays open.                                                  *)
(***************************************************************************)
SubscribedGetSetRejected ==
    [][ (ReadsValid({GET_str, SET_str}) /\ conns[last'.conn].rooms # <<>>)
          => /\ Len(wlog') = 1
             /\ IsErrorReply(wlog'[1], last'.conn)
             /\ hlog' = <<>>
             /\ db' = db
             /\ conns'[last'.conn].alive ]_vars

\* C12: a connection subscribed to room a has sent SET k v while the store
\* holds nothing: it got the error and the store still holds nothing.
SubscribedGetSetRejectedWitness ==
    /\ LastIs(SET_str)
    /\ conns[last.conn].alive
    /\ conns[last.conn].rooms = <<RoomA>>
    /\ wlog = <<[conn |-> last.conn, bytes |-> ERR_SUB_MODE]>>
    /\ hlog = <<>>
    /\ db = <<>>

\* The names of the command table.
RegisteredNames == {e.name : e \in Range(RedisCommandsList)}

\* A step in which a connection reads, alone in its buffer, a request that
\* names a registered command with fewer arguments than its minArgs or more
\* than its maxArgs.
ReadsWrongArgs ==
    /\ last'.ev = "readable"
    /\ IsRequest(last'.req)
    /\ last'.buf = Encode(last'.req)
    /\ ReqName(last'.req) \in RegisteredNames
    /\ \/ Len(ReqArgs(last'.req)) < EntryOf(last'.req).minArgs
       \/ Len(ReqArgs(last'.req)) > EntryOf(last'.req).maxArgs

(***************************************************************************)
(* C13  Wrong number of arguments: a request naming a registered command   *)
(* with fewer arguments than minArgs or more than maxArgs is answered with *)
(* exactly one reply, the error "wrong number of arguments for 'NAME'      *)
(* command"; no handler is entered, no store call is made, and the store,  *)
(* the room registry and the connections are unchanged.                    *)
(***************************************************************************)
WrongArgsRejected ==
    [][ ReadsWrongArgs
          => /\ wlog' = <<[conn  |-> last'.conn,
                           bytes |-> ErrWrongArgs(ReqName(last'.req))]>>
             /\ hlog' = <<>>
             /\ db' = db
             /\ allRooms' = allRooms
             /\ conns' = conns ]_vars

\* C13: with k set in the store, a SET with five arguments is answered with
\* the error and k keeps its value.
WrongArgsRejectedWitness ==
    /\ LastIs(SET_str)
    /\ Len(ReqArgs(last.req)) = 5
    /\ Len(wlog) = 1
    /\ IsErrorReply(wlog[1], last.conn)
    /\ hlog = <<>>
    /\ KeyK \in DOMAIN db
    /\ db[KeyK] = ValV

\* A step in which a connection reads, alone in its buffer, a request whose
\* name, in upper case, is none of the command table.
ReadsUnknown ==
    /\ last'.ev = "readable"
    /\ IsRequest(last'.req)
    /\ last'.buf = Encode(last'.req)
    /\ ReqName(last'.req) \notin RegisteredNames

(***************************************************************************)
(* C14  Unknown command: a request whose name, in upper case, is not       *)
(* exactly a name of the command table (the empty name, a proper prefix    *)
(* such as SUB, an extension such as GETX among them) is answered with     *)
(* exactly one reply, the error "unknown command 'NAME'"; no handler is    *)
(* entered, the process does not crash, and the store and the registry are *)
(* unchanged.                                                              *)
(***************************************************************************)
UnknownRejected ==
    [][ ReadsUnknown
          => /\ ~crashed'
             /\ wlog' = <<[conn  |-> last'.conn,
                           bytes |-> ErrUnknownCommand(ReqName(last'.req))]>>
             /\ hlog' = <<>>
             /\ db' = db
             /\ allRooms' = allRooms ]_vars

\* A step in which a connection reads, alone in its buffer, a protocol
\* value that is not an array of one or more bulk strings.
ReadsShapeless ==
    /\ last'.ev = "readable"
    /\ last'.req \in ShapelessValues
    /\ last'.buf = Encode(last'.req)

(***************************************************************************)
(* C15  Shape check: a completed value that is not a top-level array, that *)
(* is an array of zero elements, or that is an array with an element that  *)
(* is not a bulk string is answered with one error reply, and no handler   *)
(* is entered.                                                             *)
(***************************************************************************)
ShapelessRejected ==
    [][ ReadsShapeless
          => /\ Len(wlog') = 1
             /\ IsErrorReply(wlog'[1], last'.conn)
             /\ hlog' = <<>> ]_vars

\* A step in which a connection reads a request and the first reply to it
\* is an error reply; Followed: the bytes of COMMAND come after the request
\* in the same read.
ReadsCommandError ==
    /\ last'.ev = "readable"
    /\ IsRequest(last'.req)
    /\ Len(wlog') >= 1
    /\ IsErrorReply(wlog'[1], last'.conn)

Followed ==
    last'.buf = Encode(last'.req) \o Encode(Request(<<COMMAND_str>>))

\* What COMMAND, read alone by the connection in the state the step ends
\* in, does.
CommandAlone ==
    handle_readable([db |-> db', allRooms |-> allRooms', conns |-> conns',
                     crashed |-> FALSE, wlog |-> <<>>, hlog |-> <<>>,
                     ret |-> 0],
                    last'.conn, Encode(Request(<<COMMAND_str>>)), DefaultEnv)

\* s ends with t.
EndsWith(s, t) ==
    /\ Len(s) >= Len(t)
    /\ SubSeq(s, Len(s) - Len(t) + 1, Len(s)) = t

(***************************************************************************)
(* C16  Command errors keep the connection: after the error reply to an    *)
(* unknown command, a wrong argument count, a command not allowed in       *)
(* subscriber mode or a failed get or put of the store, the connection is  *)
(* open as it was, and a well-formed command that follows it (here COMMAND *)
(* in the same read) is executed as it is when it arrives alone: its       *)
(* replies follow the error reply and its handler is entered if it is when *)
(* alone.                                                                  *)
(***************************************************************************)
CommandErrorKeepsConnection ==
    [][ ReadsCommandError
          => /\ conns' = conns
             /\ ~crashed'
             /\ Followed
                  => /\ wlog' = <<wlog'[1]>> \o CommandAlone.wlog
                     /\ EndsWith(hlog', CommandAlone.hlog) ]_vars

\* The state the server is in before the step, as the handlers take it.
StateBefore ==
    [db |-> db, allRooms |-> allRooms, conns |-> conns, crashed |-> FALSE,
     wlog |-> <<>>, hlog |-> <<>>, ret |-> 0]

\* A step in which a connection reads bytes that put its parser in Invalid
\* at the first value of the buffer (InvalidFirst), or at the second value,
\* after a COMMAND that ran and let the loop go on (InvalidSecond).
InvalidFirst ==
    /\ last'.ev = "readable"
    /\ status(parse(NewParser, last'.buf).ps) = RESPParserStatusInvalid

InvalidSecond ==
    /\ last'.ev = "readable"
    /\ last'.buf = Encode(Request(<<COMMAND_str>>)) \o BadLine
    /\ status(parse(NewParser, BadLine).ps) = RESPParserStatusInvalid
    /\ last'.env.ret = 0

(***************************************************************************)
(* C17  Close on Invalid: when the bytes a connection reads put its parser *)
(* in Invalid, the connection is closed; nothing is written for the        *)
(* malformed value (the only reply of the event is that of a command       *)
(* completed before it); the bytes after it are not executed (no handler,  *)
(* no change of the store or the registry); and every other connection is  *)
(* as it was and is written nothing.                                       *)
(***************************************************************************)
InvalidClosesOnlyThatConnection ==
    [][ (InvalidFirst \/ InvalidSecond)
          => /\ conns'[last'.conn] = FreedConnection
             /\ \A b \in Addrs \ {last'.conn} : conns'[b] = conns[b]
             /\ db' = db
             /\ allRooms' = allRooms
             /\ ~crashed'
             /\ InvalidFirst => wlog' = <<>> /\ hlog' = <<>>
             /\ InvalidSecond
                  => LET alone == run_command(StateBefore, last'.conn,
                                              Request(<<COMMAND_str>>),
                                              DefaultEnv)
                     IN  wlog' = alone.wlog /\ hlog' = alone.hlog ]_vars

InvalidClosesWitness ==
    /\ last.ev = "readable"
    /\ last.buf = BadLine \o Encode(Request(<<SET_str, KeyK, ValV>>))
    /\ conns[last.conn] = FreedConnection
    /\ \E b \in Addrs \ {last.conn} : conns[b].alive /\ conns[b].subsriberMode
    /\ wlog = <<>>
    /\ KeyK \notin DOMAIN db

(***************************************************************************)
(* SpecMalformed: one parser fed bytes that are not an encoding.  bad is   *)
(* the place of the first byte that makes the input malformed.             *)
(***************************************************************************)
BadTerminators ==
    { [bytes |-> <<"+", "O", CR, "K", LF>>, bad |-> 4],
      [bytes |-> <<":", "1", CR, "x">>, bad |-> 4],
      [bytes |-> <<"*", "1", CR, CR, LF>>, bad |-> 4],
      [bytes |-> <<"$", "1", CR, LF, "a", "b", CR, LF>>, bad |-> 6],
      [bytes |-> <<"$", "1", CR, LF, "a", CR, "x">>, bad |-> 7],
      [bytes |-> <<"$", "0", CR, LF, LF>>, bad |-> 5] }

NonDigits ==
    { [bytes |-> <<":", "1", "x", CR, LF>>, bad |-> 3],
      [bytes |-> <<":", "-", "-", "1", CR, LF>>, bad |-> 3],
      [bytes |-> <<"*", "/", CR, LF>>, bad |-> 2],
      [bytes |-> <<"$", "1", " ", CR, LF, "a", CR, LF>>, bad |-> 3] }

BadChildren ==
    { [bytes |-> <<"*", "1", CR, LF, "+", "O", CR, "K", LF>>, bad |-> 8],
      [bytes |-> <<"*", "2", CR, LF, ":", "1", CR, LF,
                   "$", "1", CR, LF, "a", "b", CR, LF>>, bad |-> 14] }

MalformedInputs == BadTerminators \cup NonDigits \cup BadChildren

BadAt(bytes) == (CHOOSE m \in MalformedInputs : m.bytes = bytes).bad

InitMalformed ==
    /\ pin \in {m.bytes : m \in MalformedInputs}
    /\ ppos = 0
    /\ parser = NewParser
    /\ pgrab = NULL
    /\ pcalls = 0
    /\ ServerIdle
    /\ IOIdle
    /\ PollerIdle
    /\ TrieIdle

\* parse() is called on the next k bytes, whatever the parser's status is
\* short of Done.
PFeedAny ==
    /\ ppos < Len(pin)
    /\ status(parser) # RESPParserStatusDone
    /\ \E k \in 1..(Len(pin) - ppos) :
         LET r == parse(parser, SubSeq(pin, ppos + 1, ppos + k))
         IN  /\ parser' = r.ps
             /\ ppos' = ppos + r.n
    /\ pcalls' = Min(pcalls + 1, 2)
    /\ UNCHANGED <<pin, pgrab>>
    /\ UNCHANGED svars
    /\ UNCHANGED ovars

NextMalformed == PFeedAny \/ PGrab

SpecMalformed == InitMalformed /\ [][NextMalformed]_vars

(***************************************************************************)
(* C18  Malformed input: once the parser has consumed the first malformed  *)
(* byte (a byte after CR that is not LF, a byte that is not a digit in an  *)
(* Integer, an Array count or a BulkString length, the same inside an      *)
(* element of an array) it is in Error, and it is in Error after every     *)
(* later parse() call.                                                     *)
(***************************************************************************)
MalformedIsError ==
    ppos >= BadAt(pin) => parser.state = RESPStateError

(***************************************************************************)
(* SpecNil: one parser fed a value that is, or holds, a bulk string or an  *)
(* array of negative length, with bytes of a next value behind it.  n is   *)
(* the number of bytes of the value, val the value.                        *)
(***************************************************************************)
Behind == <<"a", "b", CR>>

NilHeaders ==
    { [bytes |-> <<"$", "-", "1", CR, LF>> \o Behind, n |-> 5, val |-> NilBulk],
      [bytes |-> <<"*", "-", "1", CR, LF>> \o Behind, n |-> 5, val |-> NilArray],
      [bytes |-> <<"$", "-", "2", CR, LF>> \o Behind, n |-> 5, val |-> NilBulk],
      [bytes |-> <<"*", "-", "1", "0", CR, LF>> \o Behind, n |-> 6,
       val |-> NilArray] }

NilElements ==
    { [bytes |-> <<"*", "2", CR, LF, "$", "-", "1", CR, LF,
                   "$", "1", CR, LF, "a", CR, LF>> \o Behind,
       n |-> 16,
       val |-> RESPArray(RESPTypeArray,
                         <<NilBulk, RESPBuffer(RESPTypeBulkString, <<"a">>)>>)],
      [bytes |-> <<"*", "2", CR, LF, "*", "-", "1", CR, LF,
                   ":", "5", CR, LF>> \o Behind,
       n |-> 13,
       val |-> RESPArray(RESPTypeArray, <<NilArray, RESPInteger(5)>>)],
      [bytes |-> <<"*", "1", CR, LF, "$", "-", "1", CR, LF>> \o Behind,
       n |-> 9,
       val |-> RESPArray(RESPTypeArray, <<NilBulk>>)] }

NilInputs == NilHeaders \cup NilElements

NilInput(bytes) == CHOOSE m \in NilInputs : m.bytes = bytes

InitNil ==
    /\ pin \in {m.bytes : m \in NilInputs}
    /\ ppos = 0
    /\ parser = NewParser
    /\ pgrab = NULL
    /\ pcalls = 0
    /\ ServerIdle
    /\ IOIdle
    /\ PollerIdle
    /\ TrieIdle

SpecNil == InitNil /\ [][NextParser]_vars

(***************************************************************************)
(* C19  Negative lengths: a top-level bulk string or array header of       *)
(* negative length is Done on the LF of its length line, no byte behind it *)
(* consumed, and grab() gives a value of type Nil; as an element of an     *)
(* array it completes as a Nil element on that LF, and the next element    *)
(* starts at the next byte.                                                *)
(***************************************************************************)
NegativeLengthIsNil ==
    LET m == NilInput(pin)
    IN  /\ (pgrab = NULL /\ ppos < m.n)
              => status(parser) = RESPParserStatusIncomplete
        /\ (pgrab = NULL /\ ppos >= m.n)
              => /\ status(parser) = RESPParserStatusDone
                 /\ ppos = m.n
                 /\ grab(parser).obj = m.val
        /\ pgrab # NULL => pgrab = m.val
        /\ (pgrab # NULL /\ m \in NilHeaders) => pgrab.type = RESPTypeNil

\* A bulk string header of negative length was consumed by one parse()
\* call and the Nil was grabbed, the bytes behind it left to the next call.
NegativeLengthIsNilWitness ==
    /\ pin \in {m.bytes : m \in NilHeaders}
    /\ pin[1] = "$"
    /\ pcalls = 1
    /\ ppos = 5
    /\ pgrab # NULL
    /\ pgrab.type = RESPTypeNil

\* A step in which a connection reads a line sent without a type byte.
ReadsInline ==
    /\ last'.ev = "readable"
    /\ last'.req \in InlineRequests
    /\ last'.buf = last'.req.str \o CRLF

\* The one-element array of the bulk string that holds the line's bytes.
Framed(line) == Request(<<line.str>>)

(***************************************************************************)
(* C20  Inline commands: bytes that start with none of + - : $ * are read  *)
(* up to the CR, the first byte included, and with the LF the value is     *)
(* Done; grab() gives an array of exactly one bulk string holding those     *)
(* bytes; and the connection does with it what it does with the encoding   *)
(* of that one-element array: the same replies, the same handler, the same *)
(* state after.                                                            *)
(***************************************************************************)
InlineIsOneElementArray ==
    [][ ReadsInline
          => LET r      == parse(NewParser, last'.buf)
                 framed == handle_readable(StateBefore, last'.conn,
                                           Encode(Framed(last'.req)),
                                           last'.env)
             IN  /\ status(r.ps) = RESPParserStatusDone
                 /\ r.n = Len(last'.buf)
                 /\ grab(r.ps).obj = Framed(last'.req)
                 /\ wlog' = framed.wlog
                 /\ hlog' = framed.hlog
                 /\ conns' = framed.conns
                 /\ db' = framed.db
                 /\ allRooms' = framed.allRooms
                 /\ crashed' = framed.crashed ]_vars

\* The line "command" was read and answered as COMMAND is.
InlineIsOneElementArrayWitness ==
    /\ last.ev = "readable"
    /\ last.req = InlineLine(<<"c", "o", "m", "m", "a", "n", "d">>)
    /\ last.buf = <<"c", "o", "m", "m", "a", "n", "d", CR, LF>>
    /\ wlog = <<[conn |-> last.conn, bytes |-> RESPOKConst]>>
    /\ hlog = <<"run_command_command">>

\* The two requests of the buffer the step read, when it read two.
PipelineRead == CHOOSE p \in Pipelines :
                   last'.buf = Encode(p[1]) \o Encode(p[2])

ReadsPipeline ==
    /\ last'.ev = "readable"
    /\ \E p \in Pipelines : last'.buf = Encode(p[1]) \o Encode(p[2])

(***************************************************************************)
(* C21  Values in one buffer: when one read holds the encodings of two     *)
(* requests one after the other, the parse() call that completes the first *)
(* returns the length of its encoding, the call on the rest completes the  *)
(* second and returns the length of that one, and the loop of              *)
(* handle_readable runs both in order: the replies of the step are those   *)
(* of the first followed by those of the second.                           *)
(***************************************************************************)
PipelineRunsAll ==
    [][ ReadsPipeline
          => LET p      == PipelineRead
                 n1     == Len(Encode(p[1]))
                 r1     == parse(NewParser, last'.buf)
                 r2     == parse(grab(r1.ps).ps,
                                 SubSeq(last'.buf, n1 + 1, Len(last'.buf)))
                 first  == run_command(StateBefore, last'.conn, p[1], last'.env)
                 second == run_command(first, last'.conn, p[2], last'.env)
             IN  /\ status(r1.ps) = RESPParserStatusDone
                 /\ r1.n = n1
                 /\ grab(r1.ps).obj = p[1]
                 /\ status(r2.ps) = RESPParserStatusDone
                 /\ r2.n = Len(Encode(p[2]))
                 /\ grab(r2.ps).obj = p[2]
                 /\ wlog' = second.wlog
                 /\ hlog' = second.hlog ]_vars

(***************************************************************************)
(* SpecReuse: one parser fed the encodings of two values, one after the    *)
(* other, and grab() called when it is Done.                               *)
(***************************************************************************)
ReuseValues ==
    { RESPBuffer(RESPTypeSimpleString, <<"O", "K">>),
      RESPInteger(-3),
      RESPBuffer(RESPTypeBulkString, <<"a", CR, LF, "b">>),
      NilBulk,
      RESPArray(RESPTypeArray,
                <<RESPArray(RESPTypeArray, <<RESPInteger(12)>>),
                  RESPBuffer(RESPTypeBulkString, <<"a">>)>>),
      InlineLine(<<"P", "I", "N", "G">>) }

ReusePairs == ReuseValues \X ReuseValues

InitReuse ==
    /\ pin \in {Encode(pr[1]) \o Encode(pr[2]) : pr \in ReusePairs}
    /\ ppos = 0
    /\ parser = NewParser
    /\ pgrab = NULL
    /\ pcalls = 0
    /\ ServerIdle
    /\ IOIdle
    /\ PollerIdle
    /\ TrieIdle

SpecReuse == InitReuse /\ [][NextParser]_vars

\* The two values pin holds, and what grab() gives for a value.
ReusePair == CHOOSE pr \in ReusePairs : pin = Encode(pr[1]) \o Encode(pr[2])
Grabbed(v) == IF v.type = RESPTypeInline THEN Request(<<v.str>>) ELSE v

\* What can be seen of a parser: its status, its stack, the value it holds.
Seen(ps) == [status |-> status(ps), stack |-> ps.stack, latest |-> ps.latest]

(***************************************************************************)
(* C22  Reuse after grab(): once a value is Done and grab() has been       *)
(* called, status() is Incomplete and the stack is empty, and for every    *)
(* number of bytes of a second value handed to parse(), the count          *)
(* consumed, the status, the stack and the result are those of a freshly   *)
(* constructed parser handed the same bytes; the second value is grabbed   *)
(* as a fresh parser gives it.                                             *)
(***************************************************************************)
ReuseIsFresh ==
    LET pr == ReusePair
        n1 == Len(Encode(pr[1]))
        e2 == Encode(pr[2])
    IN  /\ ppos < n1 => pgrab = NULL
        /\ (ppos = n1 /\ pgrab = NULL)
              => status(parser) = RESPParserStatusDone
        /\ (ppos = n1 /\ pgrab # NULL)
              => /\ pgrab = Grabbed(pr[1])
                 /\ Seen(parser) = Seen(NewParser)
                 /\ \A k \in 1..Len(e2) :
                       LET again == parse(parser, SubSeq(e2, 1, k))
                           fresh == parse(NewParser, SubSeq(e2, 1, k))
                       IN  /\ again.n = fresh.n
                           /\ Seen(again.ps) = Seen(fresh.ps)
        /\ (ppos = Len(pin) /\ status(parser) = RESPParserStatusDone)
              => grab(parser).obj = Grabbed(pr[2])
        /\ (ppos = Len(pin) /\ status(parser) # RESPParserStatusDone)
              => pgrab = Grabbed(pr[2]) /\ Seen(parser) = Seen(NewParser)

\* A negative integer and then a nested array were parsed by the same
\* parser and both grabbed.
ReuseIsFreshWitness ==
    /\ ReusePair[1] = RESPInteger(-3)
    /\ ReusePair[2].type = RESPTypeArray
    /\ ppos = Len(pin)
    /\ pgrab = ReusePair[2]
    /\ parser.sign = 1
    /\ status(parser) = RESPParserStatusIncomplete

\* ======================================================================
\* SpecIO: the output side of one IOHandler (poller.h), byte by byte.
\* The record h holds the fields of the object (closing, write_buf,
\* write_avail), what the kqueue knows of its descriptor (readable,
\* writable: the filters enabled) and the history of the socket (sent:
\* the bytes ::write took; failed: a ::write or the switching on of the
\* Writable filter has failed).  freed tells that delete this has run.
\* ======================================================================
MaxWrites == 2
MaxBudget == 2

Messages == { <<"a", "b", "c">>, <<"d", "e">> }
\* what a read past the end of the caller's bytes may find
Garbage == { "?", "!" }

\* IOHandler::IOHandler: both filters are switched on, write_avail = 0.
NewIOHandler ==
    [closing |-> FALSE, freed |-> FALSE, write_buf |-> <<>>,
     write_avail |-> 0, readable |-> TRUE, writable |-> TRUE,
     sent |-> <<>>, failed |-> FALSE]

\* what one call finds outside the program: sock, the number of bytes the
\* socket is ready to take (-1: ::write fails); tog, the result of
\* Poller::toggle; garb, the byte found behind the caller's buffer; uaf,
\* what a call on a deleted handler does.
Oracles ==
    [sock : -1 .. MaxBudget, tog : {0, 1}, garb : Garbage,
     uaf : {"returns", "crash"}]

\* ::write(fd, _, req) under oracle o
SockWrite(o, req) == IF o.sock < 0 THEN -1 ELSE Min(o.sock, req)

\* the len bytes memcpy reads at buf + start
CopyFrom(bytes, start, len, o) ==
    [j \in 1 .. len |->
        IF start + j <= Len(bytes) THEN bytes[start + j] ELSE o.garb]

\* IOHandler::write, from the buffering on (lines 282-300): len bytes are
\* left, buf points start bytes into the caller's bytes.
IOHandler_buffer(h, bytes, start, len, o) ==
    IF len = 0 THEN h
    ELSE IF Len(h.write_buf) # 0
         THEN [h EXCEPT !.write_buf = @ \o CopyFrom(bytes, start, len, o)]
    ELSE IF o.tog # 0
         THEN [h EXCEPT !.write_buf = CopyFrom(bytes, start, len, o),
                        !.failed = TRUE]
    ELSE [h EXCEPT !.write_buf = CopyFrom(bytes, start, len, o),
                   !.writable = TRUE]

\* IOHandler::write(buf, len).  After the synchronous ::write the code
\* runs len -= res; buf += len; : the pointer moves by what is LEFT.
IOHandler_sync(h, bytes, res, o) ==
    IF res < 0 THEN [h EXCEPT !.failed = TRUE]
    ELSE IOHandler_buffer([h EXCEPT !.sent = @ \o SubSeq(bytes, 1, res)],
                          bytes, Len(bytes) - res, Len(bytes) - res, o)

IOHandler_write(h, bytes, o) ==
    IF Len(h.write_buf) = 0 /\ h.write_avail > 0
    THEN IOHandler_sync(h, bytes,
                        SockWrite(o, Min(h.write_avail, Len(bytes))), o)
    ELSE IOHandler_buffer(h, bytes, 0, Len(bytes), o)

\* IOHandler::flush_writes(n), after write_avail = n and a ::write of res
flush_taken(h, res) ==
    IF res < 0 THEN [h EXCEPT !.failed = TRUE]
    ELSE [h EXCEPT !.write_avail = @ - res,
                   !.sent = @ \o SubSeq(h.write_buf, 1, res),
                   !.write_buf = SubSeq(@, res + 1, Len(@))]

flush_writes(h, n, o) ==
    IF Len(h.write_buf) > 0 /\ n > 0
    THEN flush_taken([h EXCEPT !.write_avail = n],
                     SockWrite(o, Min(n, Len(h.write_buf))))
    ELSE IF Len(h.write_buf) = 0
         THEN IF o.tog # 0
              THEN [h EXCEPT !.write_avail = n]
              ELSE [h EXCEPT !.write_avail = n, !.writable = FALSE]
    ELSE [h EXCEPT !.write_avail = n]

\* IOHandler::close(): ::close(fd) takes the descriptor out of the kqueue.
IOHandler_close(h) ==
    [h EXCEPT !.closing = TRUE, !.freed = TRUE,
              !.readable = FALSE, !.writable = FALSE]

\* RedisConnection::handle_readable as the IOHandler sees it: rd tells
\* what the bytes read amount to ("none": nothing complete, "invalid": the
\* parser rejects them, "request": a command whose reply is written).
IOHandler_handle_readable(h, rd, reply, o) ==
    IF rd = "invalid" THEN IOHandler_close(h)
    ELSE IF rd = "request" THEN IOHandler_write(h, reply, o)
    ELSE h

IOHandler_handle_EofIgnored(h, state, num, rd, reply, o) ==
    IF h.closing THEN h
    ELSE IF state = "Readable" THEN IOHandler_handle_readable(h, rd, reply, o)
    ELSE IF state = "ReadEOF"
         THEN IF o.tog # 0 THEN h ELSE [h EXCEPT !.readable = FALSE]
    ELSE IF state = "Writable" THEN flush_writes(h, num, o)
    ELSE h

\* IOHandler::handle(state, num)
IOHandler_handle(h, state, num, rd, reply, o) ==
    IF h.closing THEN h
    ELSE IF state = "Readable" THEN IOHandler_handle_readable(h, rd, reply, o)
    ELSE IF state = "ReadEOF"
         THEN IF o.tog # 0 THEN h ELSE [h EXCEPT !.readable = FALSE]
    ELSE IF state = "Writable" THEN flush_writes(h, num, o)
    ELSE IF state = "WriteEOF"
         THEN IF Len(h.write_buf) = 0 THEN IOHandler_close(h) ELSE h
    ELSE h

\* ---- Poller::poll, one descriptor ------------------------------------
\* p = [h, crashed, cbs]: cbs lists the callbacks poll has made for the
\* event, each with what it found (empty: the output buffer was empty;
\* freed: the handler had been deleted).
PollCall(p, state, num, rd, reply, o) ==
    IF p.crashed THEN p
    ELSE IF p.h.freed
         THEN [p EXCEPT !.crashed = (o.uaf = "crash"),
                        !.cbs = Append(@, [state |-> state, empty |-> TRUE,
                                           freed |-> TRUE])]
    ELSE [p EXCEPT !.h = IOHandler_handle(p.h, state, num, rd, reply, o),
                   !.cbs = Append(@, [state |-> state,
                                      empty |-> Len(p.h.write_buf) = 0,
                                      freed |-> FALSE])]

\* the body of the loop of Poller::poll for one kevent
PollEof(p, ev, state, in) ==
    IF ev.eof THEN PollCall(p, state, in.n, in.rd, in.reply, in.o) ELSE p

PollEvent(p, ev, in) ==
    IF ev.filter = "READ"
    THEN PollEof(PollCall(p, "Readable", in.n, in.rd, in.reply, in.o),
                 ev, "ReadEOF", in)
    ELSE PollEof(PollCall(p, "Writable", in.n, in.rd, in.reply, in.o),
                 ev, "WriteEOF", in)

\* the batches kevent can return for the descriptor: one event for each
\* enabled filter at most; EV_EOF stays once it was reported.
Events(f, on, eof) ==
    IF on THEN { [filter |-> f, eof |-> e] : e \in (IF eof THEN {TRUE} ELSE BOOLEAN) }
    ELSE {}

Batches(s) ==
    LET R == Events("READ", s.h.readable, s.reof)
        W == Events("WRITE", s.h.writable, s.weof)
    IN  { <<e>> : e \in R \cup W }
        \cup { <<r, w>> : r \in R, w \in W }
        \cup { <<w, r>> : r \in R, w \in W }

NoGarb == "?"
PlainOracles == { o \in Oracles : o.garb = NoGarb /\ o.sock = 0 }
FlushOracles == { o \in Oracles : o.garb = NoGarb }
WriteOracles == { o \in Oracles : o.uaf = "returns" }

ReadInputs(s) ==
    [n : {0}, rd : {"none", "invalid"}, reply : {<<>>}, o : PlainOracles]
    \cup (IF s.nwrites < MaxWrites
          THEN [n : {0}, rd : {"request"}, reply : Messages, o : Oracles]
          ELSE {})

WriteInputs ==
    [n : 0 .. MaxBudget, rd : {"none"}, reply : {<<>>}, o : FlushOracles]

InitIO ==
    /\ ParserIdle
    /\ ServerIdle
    /\ PollerIdle
    /\ TrieIdle
    /\ io = [h |-> NewIOHandler, asked |-> <<>>, nwrites |-> 0,
             batch |-> <<>>, reof |-> FALSE, weof |-> FALSE,
             crashed |-> FALSE, cbs |-> <<>>, eofkept |-> FALSE]

\* a WriteEOF callback found output waiting and left the connection open
KeptOpen(cbs) ==
    \E i \in DOMAIN cbs : cbs[i].state = "WriteEOF" /\ ~cbs[i].empty

Wrote(s, ev, in) ==
    ev.filter = "READ" /\ in.rd = "request" /\ ~s.h.closing /\ ~s.h.freed

\* kevent() of Poller::poll returns a batch for the descriptor
IOKevent ==
    /\ io.batch = <<>> /\ ~io.crashed /\ ~io.h.freed
    /\ \E b \in Batches(io) :
          io' = [io EXCEPT
                   !.batch = b,
                   !.reof = @ \/ (\E i \in DOMAIN b : b[i].filter = "READ" /\ b[i].eof),
                   !.weof = @ \/ (\E i \in DOMAIN b : b[i].filter = "WRITE" /\ b[i].eof),
                   !.cbs = <<>>]
    /\ UNCHANGED <<pvars, svars, kq, lookup>>

\* one turn of the loop of Poller::poll: the callbacks of the next event
IODispatch ==
    /\ io.batch # <<>> /\ ~io.crashed
    /\ LET ev == Head(io.batch) IN
       \E in \in (IF ev.filter = "READ" THEN ReadInputs(io) ELSE WriteInputs) :
       \E p \in { PollEvent([h |-> io.h, crashed |-> FALSE, cbs |-> <<>>],
                            ev, in) } :
          io' = [io EXCEPT
                   !.h = p.h, !.crashed = p.crashed, !.cbs = p.cbs,
                   !.batch = Tail(@),
                   !.eofkept = @ \/ KeptOpen(p.cbs),
                   !.asked = IF Wrote(io, ev, in) THEN @ \o in.reply ELSE @,
                   !.nwrites = IF Wrote(io, ev, in) THEN @ + 1 ELSE @]
    /\ UNCHANGED <<pvars, svars, kq, lookup>>

\* the handler of another connection calls write() on this one
IOWrite ==
    /\ ~io.crashed /\ ~io.h.freed /\ io.nwrites < MaxWrites
    /\ \E bytes \in Messages, o \in WriteOracles :
          io' = [io EXCEPT
                   !.h = IOHandler_write(@, bytes, o),
                   !.asked = @ \o bytes,
                   !.nwrites = @ + 1,
                   !.cbs = <<>>]
    /\ UNCHANGED <<pvars, svars, kq, lookup>>

NextIO == IOKevent \/ IODispatch \/ IOWrite

SpecIO == InitIO /\ [][NextIO]_vars

\* C23: as long as no call has failed, the bytes handed to the socket
\* followed by the bytes still in the output buffer are the bytes passed
\* to write(), in call order.
OutputPreserved ==
    (io # <<>> /\ ~io.h.failed) => io.h.sent \o io.h.write_buf = io.asked

\* no byte is lost or added: the counts agree
OutputLength ==
    (io # <<>> /\ ~io.h.failed) =>
        Len(io.h.sent) + Len(io.h.write_buf) = Len(io.asked)

\* C24: a WriteEOF callback that finds the output buffer empty closes and
\* destroys the connection at once; one that finds output waiting leaves
\* it open, and from then on the step that empties the buffer closes it.
EofFound(e) ==
    \E i \in DOMAIN io'.cbs :
        /\ io'.cbs[i].state = "WriteEOF" /\ ~io'.cbs[i].freed
        /\ io'.cbs[i].empty = e

Drains ==
    /\ io.eofkept /\ ~io.h.freed
    /\ io.h.write_buf # <<>> /\ io'.h.write_buf = <<>>

NoCallbackOnFreed ==
    io # <<>> => \A i \in DOMAIN io.cbs : ~io.cbs[i].freed

\* C26: once close() has set the closing flag of a connection, no write()
\* on it is taken: no event writes bytes to a connection that was closed
\* before the event.
NoWriteAfterClose ==
    [][ \A i \in DOMAIN wlog' : ~conns[wlog'[i].conn].closing ]_vars

\* C27: the step in which a ::write of write() or of flush_writes() fails,
\* or in which switching the Writable filter on fails, closes the
\* connection: it is not left open with the failure unseen.
FailureCloses ==
    [][ (~io.h.failed /\ io'.h.failed) => (io'.h.closing \/ io'.crashed) ]_vars

\* The commands of the bytes the step read, in their order.
CommandsRead ==
    IF ReadsPipeline THEN PipelineRead
    ELSE IF last'.req # NULL /\ last'.buf = Encode(last'.req)
         THEN <<last'.req>>
    ELSE <<>>

ToIssuer(w) == w.conn = last'.conn

OneReplyNames == {GET_str, SET_str, COMMAND_str, PUBLISH_str}

\* C28: the replies of a connection are queued in the order of its
\* commands, and each GET, SET, COMMAND and PUBLISH, carried out or turned
\* down, puts exactly one reply on the connection of its issuer: a read of
\* k such commands queues k replies to the issuer, the i-th being that of
\* the i-th command.
RepliesInOrder ==
    [][ ( /\ last'.ev = "readable"
          /\ ~crashed'
          /\ CommandsRead # <<>>
          /\ \A i \in DOMAIN CommandsRead :
                /\ IsRequest(CommandsRead[i])
                /\ ReqName(CommandsRead[i]) \in OneReplyNames )
        => /\ Len(SelectSeq(wlog', ToIssuer)) = Len(CommandsRead)
           /\ \A i \in DOMAIN CommandsRead :
                 <<SelectSeq(wlog', ToIssuer)[i]>> =
                     SelectSeq(run_command(StateBefore, last'.conn,
                                           CommandsRead[i], last'.env).wlog,
                               ToIssuer) ]_vars

\* ======================================================================
\* SpecTimer: Poller::setTimeout, Poller::clearTimeout and the timer
\* events of Poller::poll.  kq.kernel is the timer filter of the kqueue:
\* for each ident, the handler registered as udata ("none": no timer).
\* The rest is history: owner[id], the handler setTimeout was given when
\* it returned id; pending, the ids returned and not cleared since; ret,
\* the value of the call made last; fired, the handle(Timeout, num) calls
\* poll has made.
\* ======================================================================
MaxTimers == 3
TimerIds == 1 .. MaxTimers
TimerHandlers == { "h1", "h2" }

NewPoller ==
    [lastTimerId |-> 0,
     kernel |-> [i \in TimerIds |-> "none"],
     owner |-> [i \in TimerIds |-> "none"],
     pending |-> {}, ret |-> 0, fired |-> {}]

\* Poller::setTimeout(ms, data): EV_SET(&event, 1, EVFILT_TIMER, EV_ADD |
\* EV_ENABLE, NOTE_MSECONDS, 5000, data); ok tells whether kevent took it.
setTimeout(k, data, ok) ==
    IF ok
    THEN [k EXCEPT !.lastTimerId = @ + 1,
                   !.kernel[1] = data,
                   !.owner[k.lastTimerId + 1] = data,
                   !.pending = @ \cup {k.lastTimerId + 1},
                   !.ret = k.lastTimerId + 1]
    ELSE [k EXCEPT !.lastTimerId = @ + 1, !.ret = 0]

\* Poller::clearTimeout(id): EV_DELETE of ident id; kevent fails when the
\* kqueue has no such timer.
clearTimeout(k, id) ==
    IF k.kernel[id] # "none"
    THEN [k EXCEPT !.kernel[id] = "none", !.pending = @ \ {id}, !.ret = 0]
    ELSE [k EXCEPT !.pending = @ \ {id}, !.ret = 1]

\* the EVFILT_TIMER branch of Poller::poll: handle(PollerStateTimeout,
\* ident) on the udata of the event.  No EV_ONESHOT: the timer stays.
pollTimer(k, ident) ==
    [k EXCEPT !.fired = @ \cup {[handler |-> k.kernel[ident],
                                 num |-> ident,
                                 pending |-> k.pending]}]

InitTimer ==
    /\ ParserIdle
    /\ ServerIdle
    /\ IOIdle
    /\ TrieIdle
    /\ kq = NewPoller

SetTimeout ==
    /\ kq.lastTimerId < MaxTimers
    /\ \E data \in TimerHandlers, ok \in BOOLEAN :
          kq' = setTimeout(kq, data, ok)
    /\ UNCHANGED <<pvars, svars, io, lookup>>

ClearTimeout ==
    /\ \E id \in 1 .. kq.lastTimerId :
          /\ kq.owner[id] # "none"
          /\ kq' = clearTimeout(kq, id)
    /\ UNCHANGED <<pvars, svars, io, lookup>>

TimerFires ==
    /\ \E ident \in TimerIds :
          /\ kq.kernel[ident] # "none"
          /\ kq' = pollTimer(kq, ident)
    /\ UNCHANGED <<pvars, svars, io, lookup>>

NextTimer == SetTimeout \/ ClearTimeout \/ TimerFires

SpecTimer == InitTimer /\ [][NextTimer]_vars

\* C29: the kernel timer of a successful setTimeout carries the id it
\* returned.  As long as id is pending the kqueue holds a timer of ident id
\* for the handler given (so clearing another id leaves it), and every
\* handle(Timeout, num) goes to the handler that was returned num, which
\* was not cleared.
TimerKeepsId ==
    kq # <<>> =>
        /\ \A id \in kq.pending : kq.kernel[id] = kq.owner[id]
        /\ \A f \in kq.fired :
              /\ f.num \in f.pending
              /\ kq.owner[f.num] = f.handler

\* with one timer set the ids agree: the first id is 1
FirstTimerKeepsId ==
    (kq # <<>> /\ kq.lastTimerId <= 1) =>
        /\ \A id \in kq.pending : kq.kernel[id] = kq.owner[id]
        /\ \A f \in kq.fired :
              /\ f.num \in f.pending
              /\ kq.owner[f.num] = f.handler

\* ======================================================================
\* SpecMain: the poll loop of main() and the interrupt handler.
\* kq = [running, pc, ret, i, res, polls, late]: the flag; where the main
\* thread is ("test": at while(running); "call": the test has passed and
\* poll() is not entered yet; "kevent": waiting in kevent; "events": in
\* the loop over the events returned; "check": at if(res); "done": past
\* the loop); the count kevent returned and the index of the event in
\* hand; the value of poll(); the poll() calls entered; those entered
\* after the flag was cleared.
\* ======================================================================
MaxPolls == 4
MaxEvents == 3

NewMain ==
    [running |-> TRUE, pc |-> "test", ret |-> 0, i |-> 0, res |-> 0,
     polls |-> 0, late |-> 0]

\* while(running) that never reads the flag
loop_test_Blind(k) == [k EXCEPT !.pc = "call"]

\* while(running)
loop_test(k) ==
    IF k.running THEN [k EXCEPT !.pc = "call"] ELSE [k EXCEPT !.pc = "done"]

\* res = ctx.poll(): the call is entered
poll_enter(k) ==
    [k EXCEPT !.pc = "kevent", !.polls = @ + 1,
              !.late = IF k.running THEN @ ELSE @ + 1]

\* int ret = kevent(kq, NULL, 0, tevent, 16, &timelimit) has returned ret,
\* within its time limit of one second
poll_kevent(k, ret) ==
    IF ret = -1 THEN [k EXCEPT !.pc = "check", !.res = 1, !.ret = 0]
    ELSE IF ret = 0 THEN [k EXCEPT !.pc = "check", !.res = 0, !.ret = 0]
    ELSE [k EXCEPT !.pc = "events", !.ret = ret, !.i = 0]

\* one turn of for(i = 0; i < ret; i++), then return 0
poll_event(k) ==
    IF k.i + 1 < k.ret THEN [k EXCEPT !.i = @ + 1]
    ELSE [k EXCEPT !.pc = "check", !.res = 0, !.ret = 0, !.i = 0]

\* if(res) { ...; break; }
loop_check(k) ==
    IF k.res # 0 THEN [k EXCEPT !.pc = "done", !.res = 0]
    ELSE [k EXCEPT !.pc = "test"]

\* signal_handler: running = false.  A signal caught while the thread
\* waits in kevent ends the wait with -1 (EINTR) when intr holds.
signal_handler(k, intr) ==
    IF intr /\ k.pc = "kevent"
    THEN poll_kevent([k EXCEPT !.running = FALSE], -1)
    ELSE [k EXCEPT !.running = FALSE]

InitMain ==
    /\ ParserIdle
    /\ ServerIdle
    /\ IOIdle
    /\ TrieIdle
    /\ kq = NewMain

MainTest ==
    /\ kq.pc = "test"
    /\ (kq.polls < MaxPolls \/ ~kq.running)
    /\ kq' = loop_test(kq)
    /\ UNCHANGED <<pvars, svars, io, lookup>>

MainCall ==
    /\ kq.pc = "call"
    /\ kq' = poll_enter(kq)
    /\ UNCHANGED <<pvars, svars, io, lookup>>

PollWait ==
    /\ kq.pc = "kevent"
    /\ \E ret \in -1 .. MaxEvents : kq' = poll_kevent(kq, ret)
    /\ UNCHANGED <<pvars, svars, io, lookup>>

PollDispatch ==
    /\ kq.pc = "events"
    /\ kq' = poll_event(kq)
    /\ UNCHANGED <<pvars, svars, io, lookup>>

MainCheck ==
    /\ kq.pc = "check"
    /\ kq' = loop_check(kq)
    /\ UNCHANGED <<pvars, svars, io, lookup>>

Signal ==
    /\ kq.pc # "done"
    /\ kq.running
    /\ \E intr \in BOOLEAN : kq' = signal_handler(kq, intr)
    /\ UNCHANGED <<pvars, svars, io, lookup>>

MainStep == MainTest \/ MainCall \/ PollWait \/ PollDispatch \/ MainCheck

NextMain ==
    \/ MainTest
    \/ MainCall
    \/ PollWait
    \/ PollDispatch
    \/ MainCheck
    \/ Signal

SpecMain == InitMain /\ [][NextMain]_vars

\* The main thread keeps running, kevent returns within its time limit and
\* every callback returns: a step of the loop that can be taken is taken.
SpecMainFair == SpecMain /\ WF_vars(MainStep)

\* C30 as stated: once the flag is cleared no poll() call is entered; the
\* loop ends after the call in progress.
NoPollAfterClear ==
    [][ ~kq.running => kq'.polls = kq.polls ]_vars

\* C30: once the flag is cleared the loop enters poll() at most once more
\* (when the flag is cleared between the test of the loop and the call),
\* every poll() call returns, and the loop exits.
ShutdownTerminates ==
    /\ [](kq.late <= 1)
    /\ [][ (~kq.running /\ kq'.polls # kq.polls) => kq.pc = "call" ]_vars
    /\ (~kq.running ~> kq.pc = "done")

\* the flag was cleared while poll() waited, the wait ran to its time
\* limit, and the loop has ended
ShutdownTerminatesWitness ==
    /\ kq # <<>> /\ ~kq.running /\ kq.pc = "done"
    /\ kq.polls > 0 /\ kq.late = 0

\* the step was a Writable callback whose flush took the last buffered
\* bytes, and the connection is still open after the event
FlushDrains ==
    /\ io'.cbs # <<>> /\ io'.cbs[1].state = "Writable" /\ ~io'.cbs[1].freed
    /\ io.h.write_buf # <<>> /\ io'.h.write_buf = <<>>
    /\ ~io'.h.freed

\* C31: the Writable event whose flush empties the output buffer switches
\* the Writable filter of the descriptor off while it is handled.
DrainDeregisters ==
    [][ FlushDrains => ~io'.h.writable ]_vars

\* the arrays being built: the entries of the node stack that are arrays
ArraysBuilt(ps) ==
    Cardinality({k \in DOMAIN ps.stack : ps.stack[k].obj.type = RESPTypeArray})

\* a value that is no array is being read: it is the top of the stack
LeafInProgress(ps) ==
    /\ ps.state \notin {RESPStateType, RESPStateDone}
    /\ ps.stack # <<>>
    /\ Top(ps.stack).obj.type # RESPTypeArray

\* no byte of a value has been taken since the parser was made or grab()
\* was called
NothingStarted == ppos = 0 \/ pgrab # NULL

StackEmptyWhenIdle ==
    (parser.stack = <<>>) <=>
        (parser.state = RESPStateDone \/ NothingStarted)

\* C32 as stated: the stack is empty exactly when the parser is Done or
\* has started nothing, and while a value is in progress its depth is the
\* number of arrays being built.
StackDepthIsArrays ==
    /\ StackEmptyWhenIdle
    /\ (status(parser) = RESPParserStatusIncomplete /\ ~NothingStarted)
          => Len(parser.stack) = ArraysBuilt(parser)

\* C32: after every parse() and grab() call the stack is empty exactly
\* when the parser is Done or has started nothing, and its depth is the
\* number of arrays being built, plus one while a value that is no array
\* is being read (that value is the top entry).
StackDepthIsNesting ==
    /\ StackEmptyWhenIdle
    /\ Len(parser.stack) =
          ArraysBuilt(parser) + (IF LeafInProgress(parser) THEN 1 ELSE 0)

\* a bulk string is being read two arrays deep
StackDepthIsNestingWitness ==
    /\ pin # <<>> /\ Len(parser.stack) = 3
    /\ ArraysBuilt(parser) = 2
    /\ parser.state = RESPStateData

\* ======================================================================
\* SpecTrie: one Trie::get(key, len) on the trie RedisServer::Init builds.
\* lookup = [key, asked, found, crashed]: the bytes looked up, whether
\* get() has been called, what it returned.
\* ======================================================================
MaxKeyLen == 3
TrieBytes == { "G", "E", "T", "g", NUL, HI }
CommandNames == { RedisCommandsList[i].name : i \in DOMAIN RedisCommandsList }

TrieKeys ==
    SeqsOf(TrieBytes, 0, MaxKeyLen)
      \cup CommandNames
      \cup { SubSeq(n, 1, Len(n) - 1) : n \in CommandNames }
      \cup { n \o <<b>> : n \in CommandNames, b \in TrieBytes }

\* What get() hands to its caller when it has read children[c] outside the
\* vector: the process may stop there (crash), or the element read is taken
\* as a node pointer that is NULL (null).
get(trie, key, oob) ==
    IF TrieGet(trie, key) = OutOfBounds
    THEN [found |-> NULL, crashed |-> (oob = "crash")]
    ELSE [found |-> TrieGet(trie, key), crashed |-> FALSE]

InitTrie ==
    /\ ParserIdle
    /\ ServerIdle
    /\ IOIdle
    /\ PollerIdle
    /\ lookup \in [key : TrieKeys, asked : {FALSE}, found : {NULL},
                   crashed : {FALSE}]

TrieLookup ==
    /\ ~lookup.asked
    /\ \E oob \in {"crash", "null"} :
       \E r \in { get(RedisCommandStore, lookup.key, oob) } :
          lookup' = [lookup EXCEPT !.asked = TRUE, !.found = r.found,
                                   !.crashed = r.crashed]
    /\ UNCHANGED <<pvars, svars, io, kq>>

NextTrie == TrieLookup

SpecTrie == InitTrie /\ [][NextTrie]_vars

\* the entry of the command list whose name is key, NULL when there is none
EntryNamed(key) ==
    IF key \in CommandNames
    THEN RedisCommandsList[CHOOSE i \in DOMAIN RedisCommandsList :
                               RedisCommandsList[i].name = key]
    ELSE NULL

\* C33: get(name, length) returns the entry of the registered command
\* whose name is the length bytes of name, and not-found for every other
\* byte string, bytes of 0x80 and above and zero bytes included.
TrieGetExact ==
    (lookup # <<>> /\ lookup.asked) =>
        (~lookup.crashed /\ lookup.found = EntryNamed(lookup.key))

\* the same for the keys whose bytes are all below 0x80
TrieGetExactAscii ==
    (lookup # <<>> /\ lookup.asked
       /\ \A k \in DOMAIN lookup.key : SChar(lookup.key[k]) >= 0) =>
        (~lookup.crashed /\ lookup.found = EntryNamed(lookup.key))

\* a walk that leaves the trie before it meets the high byte
TrieGetExactEarly ==
    (lookup # <<>> /\ lookup.asked /\ lookup.key # <<>>
       /\ lookup.key[1] \in {"g", NUL}) =>
        (~lookup.crashed /\ lookup.found = NULL)

\* ======================================================================
\* SpecCase: the server with clients that spell the command names in
\* upper, lower and mixed case.
\* ======================================================================
tolower(c) == IF Ord(c) >= 65 /\ Ord(c) <= 90 THEN Chr(Ord(c) + 32) ELSE c

\* the spellings of a name: each letter in either case
AllCases(n) ==
    { s \in [1 .. Len(n) -> {n[k] : k \in 1 .. Len(n)}
                              \cup {tolower(n[k]) : k \in 1 .. Len(n)}] :
        \A k \in 1 .. Len(n) : s[k] \in {n[k], tolower(n[k])} }

\* three of them: as registered, all lower, lower at the odd places
ThreeCases(n) ==
    { n, [k \in 1 .. Len(n) |-> tolower(n[k])],
      [k \in 1 .. Len(n) |-> IF k % 2 = 1 THEN tolower(n[k]) ELSE n[k]] }

CaseRequests ==
    { Request(<<s, KeyK>>) : s \in AllCases(GET_str) }
      \cup { Request(<<s, KeyK, ValV>>) : s \in ThreeCases(SET_str) }
      \cup { Request(<<s>>) : s \in ThreeCases(COMMAND_str) }
      \cup { Request(<<s, RoomA>>) : s \in ThreeCases(SUBSCRIBE_str) }
      \cup { Request(<<s>>) : s \in ThreeCases(UNSUBSCRIBE_str) }
      \cup { Request(<<s, RoomA, MsgP>>) : s \in ThreeCases(PUBLISH_str) }

CaseInputs == { [req |-> r, buf |-> Encode(r)] : r \in CaseRequests }

NextCase ==
    \/ Accept(Addrs)
    \/ \E a \in Addrs : Readable(a, {}, CaseInputs)
    \/ \E a \in Addrs : WriteEOF(a)

SpecCase == Init /\ [][NextCase]_vars

\* the registered name a spelling stands for
Registered(s) ==
    CHOOSE n \in CommandNames :
        /\ Len(n) = Len(s)
        /\ \A k \in 1 .. Len(n) : s[k] \in {n[k], tolower(n[k])}

\* the request with its name as registered, its arguments untouched
AsRegistered(req) ==
    [req EXCEPT !.items[1].str = Registered(req.items[1].str)]

ReadsSpelling ==
    /\ last'.ev = "readable"
    /\ last'.req \in CaseRequests

\* C34: a request whose command name is spelled in any mix of cases is
\* dispatched to the same handler with the same arguments as the upper
\* case spelling, with the same replies and the same change of state; the
\* bytes of the arguments are used as they were sent.
CaseInsensitive ==
    [][ ReadsSpelling =>
          LET req == last'.req
              ref == run_command(StateBefore, last'.conn, AsRegistered(req),
                                 last'.env)
              ent == EntryNamed(Registered(req.items[1].str))
          IN  /\ wlog' = ref.wlog
              /\ hlog' = ref.hlog
              /\ db' = ref.db
              /\ allRooms' = ref.allRooms
              /\ conns' = ref.conns
              /\ crashed' = ref.crashed
              /\ (hlog' # <<>>) => hlog'[1] = ent.handler
              /\ (ent.handler = "run_command_set" /\ hlog' # <<>>
                    /\ last'.env.store = "ok")
                   => DbGet(db', KeyK, "ok").val = ValV ]_vars

\* a lower-case set stored the value, and a mixed-case publish reached the
\* subscriber of the room
CaseInsensitiveWitness ==
    /\ last # <<>> /\ last.ev = "readable"
    /\ last.req = Request(<<<<"p", "U", "b", "L", "i", "S", "h">>, RoomA, MsgP>>)
    /\ hlog # <<>> /\ hlog[1] = "run_command_publish"
    /\ Len(wlog) = 2
    /\ DbGet(db, KeyK, "ok").val = ValV

\* ----------------------------------------------------------------------
\* Values of length zero (SpecParser).
\* ----------------------------------------------------------------------
ZeroArrayHeader == <<"*", "0", CR, LF>>
ZeroBulkHeader  == <<"$", "0", CR, LF>>

\* the bytes consumed so far end with the header h
ConsumedEndsWith(h, back) ==
    /\ ppos - back >= Len(h)
    /\ SubSeq(pin, ppos - back - Len(h) + 1, ppos - back) = h

\* the value finished last inside a finished value
RECURSIVE LastLeaf(_)
LastLeaf(obj) ==
    IF IsArrayObj(obj) /\ obj.type = RESPTypeArray /\ Len(obj.items) > 0
      THEN LastLeaf(obj.items[Len(obj.items)])
    ELSE obj

\* the value that the parser finished with the byte it consumed last: the
\* whole value when it is Done, else the element stored last in the array
\* on top of the stack
JustFinished(ps) ==
    IF ps.state = RESPStateDone THEN LastLeaf(ps.latest)
    ELSE IF ps.state = RESPStateType /\ ps.stack # <<>>
              /\ Top(ps.stack).arg >= 1
      THEN LastLeaf(Top(ps.stack).obj.items[Top(ps.stack).arg])
    ELSE NULL

ProbeBytes == {CR, LF, "a", "0", "$"}

ZeroArrayCompletes ==
    /\ (pgrab = NULL /\ ConsumedEndsWith(ZeroArrayHeader, 0))
         => /\ parser.state \in {RESPStateDone, RESPStateType}
            /\ JustFinished(parser) = RESPArray(RESPTypeArray, <<>>)
            /\ Len(parser.stack) = 0 <=> parser.state = RESPStateDone
    /\ (pgrab = NULL /\ ppos >= 3
          /\ SubSeq(pin, ppos - 2, ppos) = <<"*", "0", CR>>)
         => parser.state = RESPStateLengthEnd

ZeroBulkCompletes ==
    /\ (pgrab = NULL /\ ConsumedEndsWith(ZeroBulkHeader, 0))
         => /\ parser.state = RESPStateDataEnd1
            /\ Top(parser.stack).obj = RESPBuffer(RESPTypeBulkString, <<>>)
            /\ \A c \in ProbeBytes :
                 parse(parser, <<c>>).ps.state =
                   IF c = CR THEN RESPStateDataEnd2 ELSE RESPStateError
    /\ (pgrab = NULL /\ ConsumedEndsWith(ZeroBulkHeader, 1))
         => /\ parser.state = RESPStateDataEnd2
            /\ \A c \in ProbeBytes :
                 parse(parser, <<c>>).ps.state =
                   IF c = LF THEN RESPStateDone ELSE RESPStateError
    /\ (pgrab = NULL /\ ConsumedEndsWith(ZeroBulkHeader, 2))
         => /\ parser.state = RESPStateDone
            /\ JustFinished(parser) = RESPBuffer(RESPTypeBulkString, <<>>)

\* C35: an array header of count zero completes the array, with no
\* elements, on the LF of its line (the parser is Done, or the array is
\* stored as the element of its parent); a bulk string of length zero is
\* complete only when its header has been followed by CR and LF, any other
\* byte there is an error, and it holds zero bytes.
ZeroLengthValues == ZeroArrayCompletes /\ ZeroBulkCompletes

\* an empty array stored as the first of three elements, the parser
\* waiting for the next element
ZeroLengthArrayWitness ==
    /\ pgrab = NULL /\ ConsumedEndsWith(ZeroArrayHeader, 0)
    /\ parser.state = RESPStateType
    /\ Len(parser.stack) = 1

\* the empty bulk string, done
ZeroLengthValuesWitness ==
    /\ pgrab = NULL /\ ConsumedEndsWith(ZeroBulkHeader, 2)
    /\ parser.state = RESPStateDone
    /\ parser.latest = RESPBuffer(RESPTypeBulkString, <<>>)
    /\ pcalls = 2

\* ----------------------------------------------------------------------
\* Queued output and Writable interest (SpecIO).
\* ----------------------------------------------------------------------
OutputQueued == ~io.h.closing /\ io.h.write_buf # <<>>

\* C36: while the connection is open, a non-empty output buffer has
\* Writable interest registered for the descriptor.
QueuedOutputIsPolled == OutputQueued => io.h.writable

\* the same while no call of the connection has failed
QueuedOutputIsPolledNoFailure ==
    (OutputQueued /\ ~io.h.failed) => io.h.writable

QueuedOutputIsPolledWitness ==
    /\ OutputQueued /\ ~io.h.failed /\ io.h.writable
    /\ io.nwrites = 2 /\ io.h.sent # <<>>

\* ======================================================================
\* SpecDrain: the connection of SpecIO with a peer that keeps reading.  No
\* ::write and no toggle fails, no EOF is reported, the requests are
\* valid (the connection is not closed), every Writable event reports a
\* budget of one byte at least and the socket takes one byte at least of
\* what it is handed.
\* ======================================================================
DrainOracles ==
    { o \in Oracles : o.sock >= 1 /\ o.tog = 0 /\ o.uaf = "returns" }

DrainReads(s) ==
    [n : {0}, rd : {"none"}, reply : {<<>>},
     o : { o \in DrainOracles : o.garb = NoGarb /\ o.sock = 1 }]
    \cup (IF s.nwrites < MaxWrites
          THEN [n : {0}, rd : {"request"}, reply : Messages, o : DrainOracles]
          ELSE {})

DrainWrites ==
    [n : 1 .. MaxBudget, rd : {"none"}, reply : {<<>>},
     o : { o \in DrainOracles : o.garb = NoGarb }]

HasWrite(b) == \E i \in DOMAIN b : b[i].filter = "WRITE"

DrainBatches(s) ==
    { b \in Batches(s) : \A i \in DOMAIN b : ~b[i].eof }

DrainKevent(B) ==
    /\ io.batch = <<>>
    /\ \E b \in B : io' = [io EXCEPT !.batch = b, !.cbs = <<>>]
    /\ UNCHANGED <<pvars, svars, kq, lookup>>

\* kevent() returns with the Writable event of the descriptor
DrainWritable == DrainKevent({ b \in DrainBatches(io) : HasWrite(b) })

\* kevent() returns without it
DrainReadable == DrainKevent({ b \in DrainBatches(io) : ~HasWrite(b) })

DrainDispatch ==
    /\ io.batch # <<>>
    /\ LET ev == Head(io.batch) IN
       \E in \in (IF ev.filter = "READ" THEN DrainReads(io) ELSE DrainWrites) :
       \E p \in { PollEvent([h |-> io.h, crashed |-> FALSE, cbs |-> <<>>],
                            ev, in) } :
          io' = [io EXCEPT
                   !.h = p.h, !.cbs = p.cbs,
                   !.batch = Tail(@),
                   !.asked = IF Wrote(io, ev, in) THEN @ \o in.reply ELSE @,
                   !.nwrites = IF Wrote(io, ev, in) THEN @ + 1 ELSE @]
    /\ UNCHANGED <<pvars, svars, kq, lookup>>

DrainWrite ==
    /\ io.nwrites < MaxWrites
    /\ \E bytes \in Messages, o \in DrainOracles :
          io' = [io EXCEPT
                   !.h = IOHandler_write(@, bytes, o),
                   !.asked = @ \o bytes,
                   !.nwrites = @ + 1,
                   !.cbs = <<>>]
    /\ UNCHANGED <<pvars, svars, kq, lookup>>

NextDrain == DrainWritable \/ DrainReadable \/ DrainDispatch \/ DrainWrite

\* The peer keeps its socket writable: while the Writable filter is on,
\* kevent() reports it again and again (strong fairness, the filter is
\* not reported while a batch is being dispatched); poll() goes through
\* the batch it got (weak fairness).
SpecDrain ==
    /\ InitIO
    /\ [][NextDrain]_vars
    /\ SF_vars(DrainWritable)
    /\ WF_vars(DrainDispatch)

MaxOutput == MaxWrites * 3

\* the output buffer becomes empty, again and again
BufferDrains == (io.h.write_buf # <<>>) ~> (io.h.write_buf = <<>>)

\* the n-th byte accepted by write() is handed to the socket
BytesHandedOver ==
    \A n \in 1 .. MaxOutput :
        (Len(io.asked) >= n)
          ~> (Len(io.h.sent) >= n /\ io.h.sent[n] = io.asked[n])

\* the hypotheses hold all along
DrainHypotheses == ~io.h.failed /\ ~io.h.closing /\ ~io.crashed

\* C37: with a peer that keeps its socket writable, no failing write and
\* the connection open, every byte accepted by write() is handed to the
\* socket in the end and the output buffer becomes empty.
OutputDrains == BufferDrains /\ BytesHandedOver

\* as many bytes as write() accepted are handed to the socket
CountHandedOver ==
    \A n \in 1 .. MaxOutput :
        (Len(io.asked) >= n) ~> (Len(io.h.sent) >= n)

\* ======================================================================
\* SpecReject: one connection that sends requests run_command turns
\* down, among them requests that fail two of its checks at once.
\* ======================================================================
RejectRequests ==
    { Request(<<GET_str, KeyK>>), Request(<<SUBSCRIBE_str, RoomA>>) }
      \cup WrongArgsRequests \cup UnknownRequests \cup ShapelessValues

TwiceWrong ==
    { RESPArray(RESPTypeArray, <<Bulk(FOO_str), RESPInteger(1)>>),
      RESPArray(RESPTypeArray, <<Bulk(GET_str), RESPInteger(1), RESPInteger(1)>>),
      RESPArray(RESPTypeArray, <<Bulk(PUBLISH_str), NilBulk>>),
      Request(<<FOO_str, KeyK, KeyK, KeyK>>),
      Request(<<<<"g", "e", "t">>>>),
      Request(<<<<"p", "u", "b", "l", "i", "s", "h">>, RoomA>>) }

RejectInputs == { [req |-> r, buf |-> Encode(r)] : r \in TwiceWrong }

NextReject ==
    \/ Accept({1})
    \/ Readable(1, RejectRequests, RejectInputs)
    \/ WriteEOF(1)

SpecReject == Init /\ [][NextReject]_vars

\* the checks a value fails, told from the value and the command table
WellShaped(v) ==
    /\ IsArrayObj(v) /\ v.type = RESPTypeArray
    /\ Len(v.items) >= 1
    /\ \A k \in 1 .. Len(v.items) : v.items[k].type = RESPTypeBulkString

KnownName(s) ==
    \E n \in CommandNames :
        /\ Len(n) = Len(s)
        /\ \A k \in 1 .. Len(n) : s[k] \in {n[k], tolower(n[k])}

ArgCountOk(v) ==
    LET ent == EntryNamed(Registered(v.items[1].str))
    IN  /\ Len(v.items) - 1 >= ent.minArgs
        /\ Len(v.items) - 1 <= ent.maxArgs

\* the first check, in the order shape, name, argument count, subscriber
\* mode, that the value fails on a connection whose mode is sub
FirstFailure(v, sub) ==
    IF ~WellShaped(v) THEN "shape"
    ELSE IF ~KnownName(v.items[1].str) THEN "name"
    ELSE IF ~ArgCountOk(v) THEN "count"
    ELSE IF sub /\ ~EntryNamed(Registered(v.items[1].str)).allowInSubMode
      THEN "mode"
    ELSE "none"

\* the error replies of a check
ErrorsOf(v, f) ==
    IF f = "shape" THEN {RESP_ERROR_NOT_ARRAY, ERR_NOT_BULK}
    ELSE IF f = "name" THEN {ErrUnknownCommand(ToUpperStr(v.items[1].str))}
    ELSE IF f = "count" THEN {ErrWrongArgs(Registered(v.items[1].str))}
    ELSE {ERR_SUB_MODE}

ReadsRejected ==
    /\ last'.ev = "readable"
    /\ last'.req \in RejectRequests \cup TwiceWrong
    /\ last'.buf = Encode(last'.req)
    /\ FirstFailure(last'.req, conns[last'.conn].subsriberMode) # "none"

RejectedWithFirst ==
    LET f == FirstFailure(last'.req, conns[last'.conn].subsriberMode)
    IN  /\ ~crashed'
        /\ Len(wlog') = 1
        /\ wlog'[1].conn = last'.conn
        /\ wlog'[1].bytes \in ErrorsOf(last'.req, f)
        /\ hlog' = <<>>

\* C38: a request that run_command turns down gets exactly one reply, the
\* error of the first check it fails in the order shape, unknown command,
\* argument count, subscriber mode, and no handler runs.
RejectionOrder == [][ ReadsRejected => RejectedWithFirst ]_vars

\* the array of no elements and the names that hold a byte above 0x7F
EmptyOrHighByte(v) ==
    IF ~IsArrayObj(v) \/ v.type # RESPTypeArray THEN FALSE
    ELSE IF Len(v.items) = 0 THEN TRUE
    ELSE /\ WellShaped(v)
         /\ \E k \in 1 .. Len(v.items[1].str) : Ord(v.items[1].str[k]) >= 128

\* the same for all the other requests
RejectionOrderElsewhere ==
    [][ (ReadsRejected /\ ~EmptyOrHighByte(last'.req)) => RejectedWithFirst ]_vars

\* a subscriber sent GET without a key and got the argument count error
RejectionOrderWitness ==
    /\ last # <<>> /\ last.ev = "readable"
    /\ last.req = Request(<<GET_str>>)
    /\ conns[last.conn].subsriberMode
    /\ wlog = <<[conn |-> last.conn, bytes |-> ErrWrongArgs(GET_str)]>>

\* ======================================================================
\* SpecBudget: the connection of SpecDrain with two counters kept beside
\* it: budget, the n of the last Writable(n) event, and tried, the bytes
\* handed to ::write since that event (its own flush included).
\* ======================================================================
\* the bytes IOHandler::write hands to ::write at once (lines 270-272)
write_attempt(h, bytes) ==
    IF Len(h.write_buf) = 0 /\ h.write_avail > 0
    THEN Min(h.write_avail, Len(bytes)) ELSE 0

\* the bytes flush_writes(n) hands to ::write (lines 309-311)
flush_attempt(h, n) ==
    IF Len(h.write_buf) > 0 /\ n > 0 THEN Min(n, Len(h.write_buf)) ELSE 0

InitBudget ==
    /\ ParserIdle
    /\ ServerIdle
    /\ PollerIdle
    /\ TrieIdle
    /\ io = [h |-> NewIOHandler, asked |-> <<>>, nwrites |-> 0,
             batch |-> <<>>, reof |-> FALSE, weof |-> FALSE,
             crashed |-> FALSE, cbs |-> <<>>, eofkept |-> FALSE,
             budget |-> 0, tried |-> 0]

BudgetDispatch ==
    /\ io.batch # <<>>
    /\ LET ev == Head(io.batch) IN
       \E in \in (IF ev.filter = "READ" THEN DrainReads(io) ELSE DrainWrites) :
       \E p \in { PollEvent([h |-> io.h, crashed |-> FALSE, cbs |-> <<>>],
                            ev, in) } :
          io' = [io EXCEPT
                   !.h = p.h, !.cbs = p.cbs,
                   !.batch = Tail(@),
                   !.asked = IF Wrote(io, ev, in) THEN @ \o in.reply ELSE @,
                   !.nwrites = IF Wrote(io, ev, in) THEN @ + 1 ELSE @,
                   !.budget = IF ev.filter = "WRITE" THEN in.n ELSE @,
                   !.tried = IF ev.filter = "WRITE"
                               THEN flush_attempt(io.h, in.n)
                             ELSE IF Wrote(io, ev, in)
                               THEN @ + write_attempt(io.h, in.reply)
                             ELSE @]
    /\ UNCHANGED <<pvars, svars, kq, lookup>>

BudgetWrite ==
    /\ io.nwrites < MaxWrites
    /\ \E bytes \in Messages, o \in DrainOracles :
          io' = [io EXCEPT
                   !.h = IOHandler_write(@, bytes, o),
                   !.asked = @ \o bytes,
                   !.nwrites = @ + 1,
                   !.cbs = <<>>,
                   !.tried = @ + write_attempt(io.h, bytes)]
    /\ UNCHANGED <<pvars, svars, kq, lookup>>

NextBudget == DrainWritable \/ DrainReadable \/ BudgetDispatch \/ BudgetWrite

SpecBudget == InitBudget /\ [][NextBudget]_vars

\* C39: from one Writable(n) event to the next, write() and
\* flush_writes() hand no more than n bytes in all to the socket.
WithinBudget == io.tried <= io.budget

\* the flush of the event itself stays within n
FlushWithinBudget ==
    [][ (io.batch # <<>> /\ Head(io.batch).filter = "WRITE")
          => io'.tried <= io'.budget ]_vars

\* ======================================================================
\* SpecLength: one parser fed, byte by byte, an Array or BulkString header
\* whose length line is made of digits only.  Where accum * 10 + (c - '0')
\* overflows the int, the build either wraps the value or traps.
\* ======================================================================
DigitLines ==
    { <<"0">>, <<"2">>, <<"1", "2">>,
      <<"2", "1", "4", "7", "4", "8", "3", "6", "4", "8">>,
      <<"4", "2", "9", "4", "9", "6", "7", "2", "9", "5">>,
      <<"4", "2", "9", "4", "9", "6", "7", "2", "9", "6">>,
      <<"4", "2", "9", "4", "9", "6", "7", "2", "9", "8">>,
      <<"4", "2", "9", "4", "9", "6", "7", "2", "9", "6", "2">> }

LengthHeaders ==
    { <<t>> \o d \o CRLF : t \in {RESPTypeArray, RESPTypeBulkString},
                           d \in DigitLines }

InitLength ==
    /\ pin \in LengthHeaders
    /\ ppos = 0
    /\ parser = NewParser
    /\ pgrab = NULL
    /\ pcalls = 0
    /\ ServerIdle
    /\ IOIdle
    /\ PollerIdle
    /\ TrieIdle

\* the byte c makes the accumulation of parse() overflow
ByteOverflows(ps, c) ==
    /\ c # CR
    /\ \/ ps.state = RESPStateLength /\ Overflows(ps.accum, SChar(c) - 48)
       \/ ps.state = RESPStateLengthSign /\ c # "-"
            /\ Overflows(0, SChar(c) - 48)

\* parse() is called on the next byte
LengthFeed ==
    /\ ppos < Len(pin)
    /\ ~crashed
    /\ status(parser) = RESPParserStatusIncomplete
    /\ \E ub \in {"wraps", "traps"} :
         IF ByteOverflows(parser, pin[ppos + 1]) /\ ub = "traps"
         THEN /\ crashed' = TRUE
              /\ UNCHANGED <<parser, ppos>>
         ELSE \E r \in { parse(parser, <<pin[ppos + 1]>>) } :
                /\ parser' = r.ps
                /\ ppos' = ppos + r.n
                /\ crashed' = FALSE
    /\ pcalls' = Min(pcalls + 1, 2)
    /\ UNCHANGED <<pin, pgrab>>
    /\ UNCHANGED <<db, allRooms, conns, accepted, last, wlog, lastSet, hlog>>
    /\ UNCHANGED ovars

LengthGrab == ~crashed /\ PGrab

NextLength == LengthFeed \/ LengthGrab

SpecLength == InitLength /\ [][NextLength]_vars

\* the digits of the header in pin
DigitsOf(bytes) == SubSeq(bytes, 2, Len(bytes) - 2)

IntMaxDigits == <<"2", "1", "4", "7", "4", "8", "3", "6", "4", "7">>

\* d, a decimal number without leading zeros, is at most d2
RECURSIVE DigitsLeq(_, _)
DigitsLeq(d, d2) ==
    IF d = <<>> THEN TRUE
    ELSE IF Ord(Head(d)) # Ord(Head(d2)) THEN Ord(Head(d)) < Ord(Head(d2))
    ELSE DigitsLeq(Tail(d), Tail(d2))

\* the number written fits a 32-bit signed integer
Fits(d) ==
    \/ Len(d) < Len(IntMaxDigits)
    \/ Len(d) = Len(IntMaxDigits) /\ DigitsLeq(d, IntMaxDigits)

\* the number written, for a d that fits
RECURSIVE Written(_)
Written(d) ==
    IF d = <<>> THEN 0
    ELSE Written(SubSeq(d, 1, Len(d) - 1)) * 10 + (Ord(d[Len(d)]) - 48)

NilLength   == -1
ErrorLength == -2

\* what the parser made of the header once its LF is consumed: the number
\* of elements or bytes it expects, NilLength for a Nil, ErrorLength for a
\* rejected line
DeclaredLength(ps, got) ==
    IF ps.state = RESPStateError THEN ErrorLength
    ELSE LET obj == IF got # NULL THEN got
                    ELSE IF ps.state = RESPStateDone THEN ps.latest
                    ELSE Top(ps.stack).obj
         IN  IF obj.type = RESPTypeNil THEN NilLength
             ELSE IF IsArrayObj(obj) THEN Len(obj.items)
             ELSE Len(obj.str)

HeaderRead == ppos = Len(pin) /\ ~crashed

\* C40: a length line of digits only never gives a Nil nor a length other
\* than the number written; a number that does not fit the 32-bit
\* accumulator is rejected, not wrapped (and the parser does not stop on
\* the overflow).
DigitsLengthExact ==
    /\ ~crashed
    /\ HeaderRead
         => DeclaredLength(parser, pgrab) =
              IF Fits(DigitsOf(pin)) THEN Written(DigitsOf(pin))
              ELSE ErrorLength

\* the same for the numbers that fit
FittingLengthExact ==
    (Fits(DigitsOf(pin)))
       => /\ ~crashed
          /\ HeaderRead
               => DeclaredLength(parser, pgrab) = Written(DigitsOf(pin))

FittingLengthWitness ==
    /\ HeaderRead /\ DigitsOf(pin) = <<"1", "2">>
    /\ parser.state = RESPStateData
    /\ Len(Top(parser.stack).obj.str) = 12

============================================================================
